---- MODULE Spec2Model ----
(***************************************************************************)
(* Structured extraction pipeline of the exam service:                     *)
(*   backend/app/services/exam/exam_parser.py   (ExamParser)               *)
(*   backend/app/services/exam/exam_service.py  (ExamService)              *)
(*   backend/app/services/exam/exam_storage.py  (ExamStorage)              *)
(*   backend/app/schemas/exam.py                (Question, QuestionType)   *)
(*   backend/app/services/paddle_ocr_client.py  (GiteePaddleOCRClient)     *)
(*                                                                         *)
(* JSON values are tagged records [k |-> kind, v |-> payload]; a string    *)
(* payload is a sequence of one-character strings, except for the `type`   *)
(* field, whose payload is a whole string.  The text is known by its       *)
(* length; where a plan entry's marker occurs in it is given with the plan.*)
(*                                                                         *)
(* Spec            one run of _process_exam_async, from the pending entry  *)
(*                 to completed or failed.  _robust_find raises NameError, *)
(*                 so no run of Spec dispatches parallel Workers.          *)
(* SpecSupervised  lines 181-206 of _parse_with_supervisor on their own,   *)
(*                 started with the chunk list _extract_chunks_by_markers  *)
(*                 is written to return when the markers are located.      *)
(* SpecChunks      lines 273-287 of _extract_chunks_by_markers, for the    *)
(*                 offsets at which the markers of a plan were located.    *)
(* SpecConvert     _post_process applied to a list of raw records.         *)
(* SpecRecover     _extract_json applied to a completion text; json.loads  *)
(*                 is modelled as a decoder over sequences of characters.  *)
(* SpecWindows     the sliding windows of _fallback_parse (lines 404-409). *)
(* SpecDedup       the deduplication of _fallback_parse (lines 417-427).   *)
(* SpecRuns        the runs of one exam on the event loop: the upload's    *)
(*                 task, reparse requests and delete_exam, interleaved at  *)
(*                 the awaits; parse is one awaited call.  SpecRunsFair    *)
(*                 adds that every task is run and every call returns.     *)
(* SpecDebug       parse and its debug artifacts for runs of different     *)
(*                 exams on the one ExamParser of the service.             *)
(* SpecOcr         _submit_task and _rotate_token of the OCR client over   *)
(*                 successive calls.                                       *)
(***************************************************************************)
EXTENDS Integers, Sequences, FiniteSets, TLC

\* ------------------------------------------------------------------------
\* Bounds of the model
\* ------------------------------------------------------------------------
\* total number of raw records the Workers of one run return
MaxRecords == 2
\* the text lengths tried reach this far past each boundary length
MaxOver == 1
\* number of chunks handed to the parallel Workers
MaxChunks == 2
\* the number of nested arrays and objects the interpreter's recursion limit
\* lets json.loads decode (the limit itself is in the thousands)
MaxNesting == 3
\* the length of the texts over brackets, commas and digits that are tried
\* exhaustively
MaxText == 3
\* the fallback texts tried reach this many window starts
MaxWindows == 8
\* the number of reparse requests made for the exam
MaxReparses == 2
\* the number of exams whose runs share the parser
MaxExams == 2
\* the number of OCR tokens configured
MaxTokens == 4

\* ------------------------------------------------------------------------
\* Program constants
\* ------------------------------------------------------------------------
MAX_SINGLE_PARSE_CHARS == 15000
chunk_size == 10000
overlap == 1500
MAX_DEPTH == 3

\* ------------------------------------------------------------------------
\* JSON values as Python sees them after json.loads
\* ------------------------------------------------------------------------
Absent == [k |-> "absent", v |-> 0]
Null == [k |-> "null", v |-> 0]
JInt(n) == [k |-> "int", v |-> n]
JStr(s) == [k |-> "str", v |-> s]
JList(xs) == [k |-> "list", v |-> xs]
JObj(f) == [k |-> "obj", v |-> f]

\* dict.get(key, default) on a question record; raises AttributeError when
\* the element is not a dict (the caller tests IsDict first)
IsDict(j) == j.k = "obj"
Get(j, key, default) == IF j.v[key].k = "absent" THEN default ELSE j.v[key]

\* Python truthiness of a JSON value
Truthy(j) ==
  CASE j.k = "absent" -> FALSE
    [] j.k = "null" -> FALSE
    [] j.k = "int" -> j.v # 0
    [] j.k = "str" -> Len(j.v) > 0
    [] j.k = "list" -> Len(j.v) > 0
    [] OTHER -> \E key \in DOMAIN j.v : j.v[key].k # "absent"

\* a raw question record with the six keys of PARSE_PROMPT
Rec(index, type, content, options, score, subs) ==
  JObj([index |-> index, type |-> type, content |-> content,
        options |-> options, score |-> score, sub_questions |-> subs])

\* ------------------------------------------------------------------------
\* schemas/exam.py
\* ------------------------------------------------------------------------
QuestionType == {"choice", "blank", "qa", "calculation", "proof", "other"}

\* str.lower() on the type strings of the model
Lower(s) ==
  CASE s = "QA" -> "qa"
    [] s = "Choice" -> "choice"
    [] OTHER -> s

Whitespace == {" ", "\t", "\n", "\r", "\f"}

RECURSIVE LStrip(_)
LStrip(s) ==
  IF s # <<>> /\ Head(s) \in Whitespace THEN LStrip(Tail(s)) ELSE s

RECURSIVE RStrip(_)
RStrip(s) ==
  IF s # <<>> /\ s[Len(s)] \in Whitespace
  THEN RStrip(SubSeq(s, 1, Len(s) - 1)) ELSE s

\* str.strip()
Strip(s) == RStrip(LStrip(s))

\* str.replace('%', '')
RemovePercent(s) == SelectSeq(s, LAMBDA c : c # "%")

Digits == {"0", "1", "2", "3", "4", "5", "6", "7", "8", "9"}
DigitVal(c) ==
  CASE c = "0" -> 0 [] c = "1" -> 1 [] c = "2" -> 2 [] c = "3" -> 3
    [] c = "4" -> 4 [] c = "5" -> 5 [] c = "6" -> 6 [] c = "7" -> 7
    [] c = "8" -> 8 [] c = "9" -> 9

RECURSIVE DigitsVal(_)
DigitsVal(s) ==
  IF s = <<>> THEN 0
  ELSE 10 * DigitsVal(SubSeq(s, 1, Len(s) - 1)) + DigitVal(s[Len(s)])

AllDigits(s) == s # <<>> /\ \A i \in 1..Len(s) : s[i] \in Digits

\* float(str) on strings over digits, sign, blank and letters: an optional
\* sign and digits, surrounding blanks allowed; anything else is ValueError
ParseFloat(s) ==
  LET t == Strip(s)
      neg == t # <<>> /\ Head(t) = "-"
      body == IF neg THEN Tail(t) ELSE t
  IN IF AllDigits(body)
     THEN [ok |-> TRUE, v |-> IF neg THEN 0 - DigitsVal(body) ELSE DigitsVal(body)]
     ELSE [ok |-> FALSE, v |-> 0]

NoScore == [k |-> "none", v |-> 0]
Float(n) == [k |-> "float", v |-> n]

Raise(e) == [ok |-> FALSE, err |-> e]
Return(x) == [ok |-> TRUE, val |-> x]

\* Question(...): pydantic validation of the constructor arguments.
\* index >= 1, score None or >= 0, content a str, options a list of str.
Question(id, index, type, content, options, score, original_text, subs) ==
  IF \/ index < 1
     \/ (score.k = "float" /\ score.v < 0)
     \/ original_text.k # "str"
     \/ options.k # "list"
     \/ \E i \in 1..Len(options.v) : options.v[i].k # "str"
  THEN Raise("ValidationError")
  ELSE Return([id |-> id, index |-> index, type |-> type, content |-> content,
               options |-> options.v, score |-> score, images |-> <<>>,
               original_text |-> original_text.v, sub_questions |-> subs])

\* ------------------------------------------------------------------------
\* ExamParser._convert_dict_to_question and ExamParser._post_process
\* ------------------------------------------------------------------------
\* an id that forgets the parent
MakeIdFlat(year, index, parent_id) == ToString(year) \o "-Q" \o ToString(index)

\* an id whose top-level form lacks the Q
MakeIdNoQ(year, index, parent_id) ==
  IF parent_id # ""
  THEN parent_id \o "-" \o ToString(index)
  ELSE ToString(year) \o "-" \o ToString(index)

\* the id of a question: f"{parent_id}-{index}" or f"{year}-Q{index}"
MakeId(year, index, parent_id) ==
  IF parent_id # ""
  THEN parent_id \o "-" \o ToString(index)
  ELSE ToString(year) \o "-Q" \o ToString(index)

\* lines 503-508: q_dict.get("type", "other"), lower-cased, unknown -> other
NormalizeType(q_dict) ==
  LET q_type == Get(q_dict, "type", JStr("other"))
      lowered == IF q_type.k = "str" THEN Lower(q_type.v) ELSE ""
  IN IF q_type.k = "str" /\ lowered \in QuestionType THEN lowered ELSE "other"

\* lines 510-523: score cleaning
CleanScore(q_dict) ==
  LET raw_score == Get(q_dict, "score", Null)
  IN CASE raw_score.k = "int" -> Float(raw_score.v)
       [] raw_score.k = "str" ->
            LET p == ParseFloat(Strip(RemovePercent(raw_score.v)))
            IN IF p.ok THEN Float(p.v) ELSE NoScore
       [] OTHER -> NoScore

\* what `for ... in enumerate(raw_subs)` iterates over: the elements of a
\* list, the characters of a str, the keys of a dict; TypeError otherwise
IterItems(j) ==
  CASE j.k = "list" -> Return(j.v)
    [] j.k = "str" -> Return([i \in 1..Len(j.v) |-> JStr(<<j.v[i]>>)])
    [] j.k = "obj" ->
         LET keys == {key \in DOMAIN j.v : j.v[key].k # "absent"}
         IN Return([i \in 1..Cardinality(keys) |-> JStr(<<"k">>)])
    [] OTHER -> Raise("TypeError")

\* the same test with the cap one level too deep
DescendOneTooDeep(raw_subs, depth) == Truthy(raw_subs) /\ depth <= MAX_DEPTH

\* line 528: `if raw_subs and depth < 3`
DescendInto(raw_subs, depth) == Truthy(raw_subs) /\ depth < MAX_DEPTH

RECURSIVE ConvertDictToQuestion(_, _, _, _, _)
RECURSIVE ConvertSubs(_, _, _, _, _)

\* lines 529-541: the loop over the sub-questions from position i on; a
\* sub-question whose conversion raises is logged and left out
ConvertSubs(items, year, my_id, depth, i) ==
  IF i > Len(items) THEN <<>>
  ELSE LET r == ConvertDictToQuestion(items[i], year, i, my_id, depth + 1)
       IN (IF r.ok THEN <<r.val>> ELSE <<>>)
            \o ConvertSubs(items, year, my_id, depth, i + 1)

\* lines 488-553
ConvertDictToQuestion(q_dict, year, index, parent_id, depth) ==
  IF ~IsDict(q_dict) THEN Raise("AttributeError")
  ELSE
    LET my_id == MakeId(year, index, parent_id)
        q_type == NormalizeType(q_dict)
        cleaned_score == CleanScore(q_dict)
        raw_subs == Get(q_dict, "sub_questions", JList(<<>>))
        recurse == DescendInto(raw_subs, depth)
        items == IF recurse THEN IterItems(raw_subs) ELSE Return(<<>>)
        content == Get(q_dict, "content", JStr(<<>>))
    IN IF ~items.ok THEN Raise(items.err)
       ELSE IF content.k # "str" THEN Raise("AttributeError")
       ELSE Question(my_id, index, q_type, Strip(content.v),
                     Get(q_dict, "options", JList(<<>>)), cleaned_score,
                     content,
                     ConvertSubs(items.val, year, my_id, depth, 1))

RECURSIVE PostProcessFrom(_, _, _)
\* lines 478-484: enumerate(raw_questions, start=1) from position i on
PostProcessFrom(raw_questions, year, i) ==
  IF i > Len(raw_questions) THEN <<>>
  ELSE LET r == ConvertDictToQuestion(raw_questions[i], year, i, "", 1)
       IN (IF r.ok THEN <<r.val>> ELSE <<>>)
            \o PostProcessFrom(raw_questions, year, i + 1)

\* lines 474-486
PostProcess(raw_questions, year) == PostProcessFrom(raw_questions, year, 1)

\* ------------------------------------------------------------------------
\* list.sort(key=lambda x: x.get("index", 0))
\* ------------------------------------------------------------------------
Ord(c) ==
  CASE c = " " -> 0 [] c = "%" -> 1 [] c = "-" -> 2 [] c \in Digits -> 3 + DigitVal(c)
    [] c = "a" -> 20 [] c = "b" -> 21 [] c = "k" -> 22 [] c = "m" -> 23
    [] OTHER -> 30

RECURSIVE StrLess(_, _)
\* s < t on Python strings
StrLess(s, t) ==
  IF t = <<>> THEN FALSE
  ELSE IF s = <<>> THEN TRUE
  ELSE IF Ord(Head(s)) # Ord(Head(t)) THEN Ord(Head(s)) < Ord(Head(t))
  ELSE StrLess(Tail(s), Tail(t))

\* a < b on two sort keys of the same kind
KeyLess(a, b) == IF a.k = "int" THEN a.v < b.v ELSE StrLess(a.v, b.v)

\* the sort key of one element; AttributeError when it is not a dict
IndexKey(q) == IF IsDict(q) THEN Return(Get(q, "index", JInt(0))) ELSE Raise("AttributeError")

\* keys Python can order: all numbers or all strings; a single key is never
\* compared
Comparable(keys) ==
  \/ Len(keys) <= 1
  \/ \A i \in 1..Len(keys) : keys[i].k = "int"
  \/ \A i \in 1..Len(keys) : keys[i].k = "str"

RECURSIVE InsertStable(_, _)
\* insert x after every element whose key is not greater than x's
InsertStable(sorted, x) ==
  IF sorted = <<>> THEN <<x>>
  ELSE IF KeyLess(IndexKey(x).val, IndexKey(Head(sorted)).val)
       THEN <<x>> \o sorted
       ELSE <<Head(sorted)>> \o InsertStable(Tail(sorted), x)

RECURSIVE StableSort(_)
StableSort(qs) ==
  IF qs = <<>> THEN <<>>
  ELSE InsertStable(StableSort(SubSeq(qs, 1, Len(qs) - 1)), qs[Len(qs)])

\* all_questions.sort(key=lambda x: x.get("index", 0)): the key of every
\* element is computed first, then the keys are compared
SortByIndex(qs) ==
  IF \E i \in 1..Len(qs) : ~IsDict(qs[i]) THEN Raise("AttributeError")
  ELSE IF ~Comparable([i \in 1..Len(qs) |-> IndexKey(qs[i]).val])
       THEN Raise("TypeError")
       ELSE Return(StableSort(qs))

\* ------------------------------------------------------------------------
\* Inputs: raw records a Worker may return, Supervisor plans, text lengths
\* ------------------------------------------------------------------------
Years == {2024}

Good(i, c) == Rec(JInt(i), JStr("choice"), JStr(c), JList(<<>>), Null, JList(<<>>))

\* the base record with one field replaced
WithField(key, val) == JObj([Good(1, <<"a">>).v EXCEPT ![key] = val])

WellFormed == {Good(1, <<"a">>), Good(1, <<"b">>), Good(2, <<"b">>)}

Malformed ==
  { JStr(<<"x">>),
    WithField("index", Absent), WithField("index", Null),
    WithField("index", JStr(<<"1">>)),
    WithField("content", Null),
    WithField("sub_questions", JInt(5)),
    WithField("sub_questions", JStr(<<"x">>)) }

OddScoreOrType ==
  { WithField("score", JInt(0 - 5)), WithField("score", JInt(5)),
    WithField("score", JStr(<<"1", "0", "%">>)),
    WithField("score", JStr(<<"x">>)),
    WithField("score", JList(<<>>)),
    WithField("type", JStr("QA")), WithField("type", JStr("essay")) }

Nested == { WithField("sub_questions", JList(<<Good(2, <<"b">>)>>)) }

\* question 7 of the paper, as a Worker returns it
Seventh == { Good(7, <<"a">>) }

RawPool == WellFormed \cup Malformed \cup OddScoreOrType \cup Nested \cup Seventh

\* the records the Workers behind the Supervisor's plan return
SupervisedPool ==
  WellFormed \cup {JStr(<<"x">>), WithField("index", Absent), WithField("index", Null)}

\* the lists of at most n raw records of a pool
Responses(pool, n) == UNION {[1..m -> pool] : m \in 0..n}

\* what one completion call of a Worker comes to: a transport error, a
\* non-200 response, or a completion from which _extract_json gets recs
WorkerOutcomes(pool, n) ==
  {[kind |-> "transport", recs |-> <<>>], [kind |-> "non200", recs |-> <<>>]}
    \cup {[kind |-> "ok", recs |-> r] : r \in Responses(pool, n)}

\* a plan entry and a plan
Entry(marker) == JObj([start_question |-> JInt(1), start_marker |-> marker])
Plan(splits) == JObj([total_questions |-> JInt(2), splits |-> splits])

EntryPool ==
  { JInt(1), Entry(Absent), Entry(JStr(<<>>)), Entry(JStr(<<"m">>)) }

\* the values json.loads can give for the Supervisor's completion
PlanValues ==
  { Null, JInt(0), JInt(7), JList(<<>>), JList(<<JInt(1)>>),
    JObj([total_questions |-> Absent, splits |-> Absent]),
    Plan(Absent), Plan(Null), Plan(JList(<<>>)), Plan(JInt(3)),
    Plan(JStr(<<"m">>)) }
    \cup {Plan(JList(es)) : es \in UNION {[1..m -> EntryPool] : m \in 1..2}}

SupervisorOutcomes ==
  {[kind |-> "transport", val |-> Null], [kind |-> "non200", val |-> Null],
   [kind |-> "badjson", val |-> Null]}
    \cup {[kind |-> "json", val |-> v] : v \in PlanValues}

Step == chunk_size - overlap

TextLens == {0} \cup {MAX_SINGLE_PARSE_CHARS + d : d \in 0..MaxOver}

\* where a marker occurs in the text: an offset, or -1 for nowhere
NotFound == 0 - 1
Offsets == {NotFound, 0, Step}

\* the offsets the marker of one plan entry may have; an entry without a
\* marker has none
EntryOffsets(entry) ==
  IF IsDict(entry) /\ Truthy(Get(entry, "start_marker", JStr(<<>>)))
  THEN Offsets ELSE {NotFound}

\* ------------------------------------------------------------------------
\* ExamParser._call_worker, _smart_split, _robust_find,
\* _extract_chunks_by_markers, _fallback_parse
\* ------------------------------------------------------------------------
\* lines 330-377: every failure is logged and comes back as an empty list
CallWorker(out) ==
  IF out.kind = "ok" THEN Return(out.recs) ELSE Return(<<>>)

\* lines 208-255: None unless the response is 200 and its content is JSON
SmartSplit(out) == IF out.kind = "json" THEN out.val ELSE Null

\* lines 289-328: the body enumerates `splits`, a name that is defined
\* neither in the method nor in the module
RobustFind(text_len, marker, at) == Raise("NameError")

RECURSIVE LocateMarkers(_, _, _, _)
\* lines 263-271: the loop over the plan entries from position i on
LocateMarkers(text_len, splits, at, i) ==
  IF i > Len(splits) THEN Return(<<>>)
  ELSE IF ~IsDict(splits[i]) THEN Raise("AttributeError")
  ELSE LET marker == Get(splits[i], "start_marker", JStr(<<>>))
           rest == LocateMarkers(text_len, splits, at, i + 1)
       IN IF ~Truthy(marker) THEN rest
          ELSE LET idx == RobustFind(text_len, marker, at[i])
               IN IF ~idx.ok THEN idx
                  ELSE IF ~rest.ok THEN rest
                  ELSE IF idx.val = NotFound THEN rest
                  ELSE Return(<<idx.val>> \o rest.val)

RECURSIVE InsertOffset(_, _)
InsertOffset(sorted, x) ==
  IF sorted = <<>> THEN <<x>>
  ELSE IF x < Head(sorted) THEN <<x>> \o sorted
  ELSE <<Head(sorted)>> \o InsertOffset(Tail(sorted), x)

RECURSIVE SortOffsets(_)
\* marker_indices.sort(key=lambda x: x[0])
SortOffsets(xs) ==
  IF xs = <<>> THEN <<>>
  ELSE InsertOffset(SortOffsets(SubSeq(xs, 1, Len(xs) - 1)), xs[Len(xs)])

RECURSIVE ChunksFromKeepEmpty(_, _, _)
\* lines 275-285 without the test of line 282
ChunksFromKeepEmpty(sorted, text_len, i) ==
  IF i > Len(sorted) THEN <<>>
  ELSE LET start_pos == sorted[i]
           end_pos == IF i < Len(sorted) THEN sorted[i + 1] ELSE text_len
       IN <<[lo |-> start_pos, hi |-> end_pos]>>
            \o ChunksFromKeepEmpty(sorted, text_len, i + 1)

RECURSIVE ChunksFrom(_, _, _)
\* lines 275-285: one chunk [start_pos, end_pos) per located marker, an
\* empty span skipped
ChunksFrom(sorted, text_len, i) ==
  IF i > Len(sorted) THEN <<>>
  ELSE LET start_pos == sorted[i]
           end_pos == IF i < Len(sorted) THEN sorted[i + 1] ELSE text_len
       IN (IF start_pos >= end_pos THEN <<>>
           ELSE <<[lo |-> start_pos, hi |-> end_pos]>>)
            \o ChunksFrom(sorted, text_len, i + 1)

\* lines 257-287
ExtractChunksByMarkers(text_len, splits, at) ==
  LET items == IterItems(splits)
  IN IF ~items.ok THEN items
     ELSE LET marker_indices == LocateMarkers(text_len, items.val, at, 1)
          IN IF ~marker_indices.ok THEN marker_indices
             ELSE Return(ChunksFrom(SortOffsets(marker_indices.val), text_len, 1))

Min(a, b) == IF a < b THEN a ELSE b

\* windows cut every chunk_size characters, without the overlap
WindowsDisjoint(text_len) ==
  [w \in 1..((text_len + chunk_size - 1) \div chunk_size) |->
     [lo |-> (w - 1) * chunk_size, hi |-> Min(w * chunk_size, text_len)]]

\* lines 404-409: range(0, len(text), chunk_size - overlap)
Windows(text_len) ==
  [w \in 1..((text_len + Step - 1) \div Step) |->
     [lo |-> (w - 1) * Step, hi |-> Min((w - 1) * Step + chunk_size, text_len)]]

FINGERPRINT_LEN == 30
\* GiteePaddleOCRClient.__init__: max_retry
max_retry == 2

\* re.sub(r'\s+', '', s)
RemoveWhitespace(s) == SelectSeq(s, LAMBDA c : c \notin Whitespace)

\* lines 422-424: (q.get("index"), fingerprint of q.get("content", ""))
DedupKey(q) ==
  LET content == Get(q, "content", JStr(<<>>))
      idx == Get(q, "index", Null)
  IN IF content.k # "str" \/ idx.k \in {"list", "obj"} THEN Raise("TypeError")
     ELSE Return(<<idx, RemoveWhitespace(
                          SubSeq(content.v, 1, Min(FINGERPRINT_LEN, Len(content.v))))>>)

RECURSIVE Dedup(_, _, _)
\* lines 418-427: the loop from position i on, seen_keys the keys so far
Dedup(qs, seen_keys, i) ==
  IF i > Len(qs) THEN Return(<<>>)
  ELSE IF ~IsDict(qs[i]) THEN Dedup(qs, seen_keys, i + 1)
  ELSE LET key == DedupKey(qs[i])
       IN IF ~key.ok THEN key
          ELSE LET rest == Dedup(qs, seen_keys \cup {key.val}, i + 1)
               IN IF ~rest.ok THEN rest
                  ELSE IF key.val \in seen_keys THEN rest
                  ELSE Return(<<qs[i]>> \o rest.val)

\* lines 417-430: dedup, sort, post-process
FallbackAssemble(all, year) ==
  LET unique_questions == Dedup(all, {}, 1)
  IN IF ~unique_questions.ok THEN unique_questions
     ELSE LET sorted == SortByIndex(unique_questions.val)
          IN IF ~sorted.ok THEN sorted
             ELSE Return(PostProcess(sorted.val, year))

\* ------------------------------------------------------------------------
\* json.loads on a text, a sequence of characters (exam_parser.py lines 444
\* and 469)
\* ------------------------------------------------------------------------
JBool(b) == [k |-> "bool", v |-> b]
\* a float is kept as its literal
JFloat(literal) == [k |-> "float", v |-> literal]
\* a dict as the decoder builds it: its items in insertion order
JDict(items) == [k |-> "dict", v |-> items]

\* the character ` (it cannot be written inside a string of this language)
Backtick == "BACKTICK"
Fence == <<Backtick, Backtick, Backtick>>

JsonWhitespace == {" ", "\t", "\n", "\r"}
ControlChars == {"\t", "\n", "\r", "\f"}
HexDigits == Digits \cup {"a", "b", "c", "d", "e", "f", "A", "B", "C", "D", "E", "F"}
Letters ==
  {"a", "b", "c", "d", "e", "f", "g", "h", "i", "j", "k", "l", "m", "n", "o", "p", "q", "r", "s", "t", "u", "v", "w", "x", "y", "z",
   "A", "B", "C", "D", "E", "F", "G", "H", "I", "J", "K", "L", "M", "N", "O", "P", "Q", "R", "S", "T", "U", "V", "W", "X", "Y", "Z"}

\* a decoded value and the position after it
Parsed(x, next) == [ok |-> TRUE, val |-> x, next |-> next]

RECURSIVE SkipWhitespace(_, _)
SkipWhitespace(s, i) ==
  IF i <= Len(s) /\ s[i] \in JsonWhitespace THEN SkipWhitespace(s, i + 1) ELSE i

\* the text has lit at position i
HasAt(s, i, lit) ==
  i + Len(lit) - 1 <= Len(s) /\ SubSeq(s, i, i + Len(lit) - 1) = lit

RECURSIVE DigitsEnd(_, _)
\* the position after the digits that start at i
DigitsEnd(s, i) ==
  IF i <= Len(s) /\ s[i] \in Digits THEN DigitsEnd(s, i + 1) ELSE i

\* NUMBER_RE: (-?(?:0|[1-9]\d*))(\.\d+)?([eE][-+]?\d+)?
ScanNumber(s, i) ==
  LET neg == s[i] = "-"
      j == IF neg THEN i + 1 ELSE i
  IN IF ~(j <= Len(s) /\ s[j] \in Digits) THEN Raise("JSONDecodeError")
     ELSE
       LET int_end == IF s[j] = "0" THEN j + 1 ELSE DigitsEnd(s, j)
           frac_end ==
             IF int_end + 1 <= Len(s) /\ s[int_end] = "." /\ s[int_end + 1] \in Digits
             THEN DigitsEnd(s, int_end + 1) ELSE int_end
           sign ==
             IF frac_end + 1 <= Len(s) /\ s[frac_end + 1] \in {"+", "-"} THEN 1 ELSE 0
           exp_end ==
             IF /\ frac_end + 1 + sign <= Len(s)
                /\ s[frac_end] \in {"e", "E"}
                /\ s[frac_end + 1 + sign] \in Digits
             THEN DigitsEnd(s, frac_end + 1 + sign) ELSE frac_end
           n == DigitsVal(SubSeq(s, j, int_end - 1))
       IN IF exp_end = int_end
          THEN Parsed(JInt(IF neg THEN 0 - n ELSE n), int_end)
          ELSE Parsed(JFloat(SubSeq(s, i, exp_end - 1)), exp_end)

\* the character a backslash escape stands for
Unescape(c) ==
  CASE c = "b" -> "BACKSPACE" [] c = "f" -> "\f" [] c = "n" -> "\n"
    [] c = "r" -> "\r" [] c = "t" -> "\t" [] OTHER -> c

RECURSIVE ScanString(_, _, _)
\* py_scanstring, strict: the string whose opening quote is before i; acc is
\* what has been decoded so far
ScanString(s, i, acc) ==
  IF i > Len(s) THEN Raise("JSONDecodeError")
  ELSE IF s[i] = "\"" THEN Parsed(JStr(acc), i + 1)
  ELSE IF s[i] \in ControlChars THEN Raise("JSONDecodeError")
  ELSE IF s[i] # "\\" THEN ScanString(s, i + 1, Append(acc, s[i]))
  ELSE IF i + 1 > Len(s) THEN Raise("JSONDecodeError")
  ELSE IF s[i + 1] \in {"\"", "\\", "/", "b", "f", "n", "r", "t"}
       THEN ScanString(s, i + 2, Append(acc, Unescape(s[i + 1])))
  ELSE IF /\ s[i + 1] = "u"
          /\ i + 5 <= Len(s)
          /\ \A h \in 2..5 : s[i + h] \in HexDigits
       THEN ScanString(s, i + 6,
              Append(acc, "\\u" \o s[i + 2] \o s[i + 3] \o s[i + 4] \o s[i + 5]))
  ELSE Raise("JSONDecodeError")

RECURSIVE DictSet(_, _, _)
\* d[key] = val: a key already there keeps its place
DictSet(items, key, val) ==
  IF items = <<>> THEN <<[key |-> key, val |-> val]>>
  ELSE IF Head(items).key = key THEN <<[key |-> key, val |-> val]>> \o Tail(items)
  ELSE <<Head(items)>> \o DictSet(Tail(items), key, val)

RECURSIVE ScanOnce(_, _, _)
RECURSIVE ScanArray(_, _, _, _)
RECURSIVE ScanObject(_, _, _, _)

\* JSONArray: the elements from position i on, acc the elements so far
ScanArray(s, i, depth, acc) ==
  LET value == ScanOnce(s, i, depth)
  IN IF ~value.ok THEN value
     ELSE LET j == SkipWhitespace(s, value.next)
              more == Append(acc, value.val)
          IN IF j > Len(s) THEN Raise("JSONDecodeError")
             ELSE IF s[j] = "]" THEN Parsed(JList(more), j + 1)
             ELSE IF s[j] # "," THEN Raise("JSONDecodeError")
             ELSE ScanArray(s, SkipWhitespace(s, j + 1), depth, more)

\* JSONObject: the items from the key at position i on
ScanObject(s, i, depth, items) ==
  IF i > Len(s) \/ s[i] # "\"" THEN Raise("JSONDecodeError")
  ELSE
    LET key == ScanString(s, i + 1, <<>>)
    IN IF ~key.ok THEN key
       ELSE
         LET colon == SkipWhitespace(s, key.next)
         IN IF colon > Len(s) \/ s[colon] # ":" THEN Raise("JSONDecodeError")
            ELSE
              LET value == ScanOnce(s, SkipWhitespace(s, colon + 1), depth)
              IN IF ~value.ok THEN value
                 ELSE
                   LET j == SkipWhitespace(s, value.next)
                       more == DictSet(items, key.val.v, value.val)
                   IN IF j > Len(s) THEN Raise("JSONDecodeError")
                      ELSE IF s[j] = "}" THEN Parsed(JDict(more), j + 1)
                      ELSE IF s[j] # "," THEN Raise("JSONDecodeError")
                      ELSE ScanObject(s, SkipWhitespace(s, j + 1), depth, more)

\* scan_once: the value at position i, inside depth arrays and objects; one
\* nested deeper than the interpreter allows is a RecursionError
ScanOnce(s, i, depth) ==
  IF i > Len(s) THEN Raise("JSONDecodeError")
  ELSE IF s[i] = "\"" THEN ScanString(s, i + 1, <<>>)
  ELSE IF s[i] \in {"{", "["} /\ depth >= MaxNesting THEN Raise("RecursionError")
  ELSE IF s[i] = "{"
       THEN LET j == SkipWhitespace(s, i + 1)
            IN IF j <= Len(s) /\ s[j] = "}" THEN Parsed(JDict(<<>>), j + 1)
               ELSE ScanObject(s, j, depth + 1, <<>>)
  ELSE IF s[i] = "["
       THEN LET j == SkipWhitespace(s, i + 1)
            IN IF j <= Len(s) /\ s[j] = "]" THEN Parsed(JList(<<>>), j + 1)
               ELSE ScanArray(s, j, depth + 1, <<>>)
  ELSE IF HasAt(s, i, <<"n", "u", "l", "l">>) THEN Parsed(Null, i + 4)
  ELSE IF HasAt(s, i, <<"t", "r", "u", "e">>) THEN Parsed(JBool(TRUE), i + 4)
  ELSE IF HasAt(s, i, <<"f", "a", "l", "s", "e">>) THEN Parsed(JBool(FALSE), i + 5)
  ELSE IF HasAt(s, i, <<"N", "a", "N">>) THEN Parsed(JFloat(<<"N", "a", "N">>), i + 3)
  ELSE IF HasAt(s, i, <<"I", "n", "f", "i", "n", "i", "t", "y">>)
       THEN Parsed(JFloat(SubSeq(s, i, i + 7)), i + 8)
  ELSE IF HasAt(s, i, <<"-", "I", "n", "f", "i", "n", "i", "t", "y">>)
       THEN Parsed(JFloat(SubSeq(s, i, i + 8)), i + 9)
  ELSE ScanNumber(s, i)

\* json.loads(s): one value, whitespace around it, nothing after it
Loads(s) ==
  LET obj == ScanOnce(s, SkipWhitespace(s, 1), 0)
  IN IF ~obj.ok THEN obj
     ELSE IF SkipWhitespace(s, obj.next) # Len(s) + 1 THEN Raise("JSONDecodeError")
     ELSE Return(obj.val)

\* ------------------------------------------------------------------------
\* ExamParser._extract_json (lines 432-472)
\* ------------------------------------------------------------------------
StartsWith(s, prefix) == HasAt(s, 1, prefix)
EndsWith(s, suffix) == Len(s) >= Len(suffix) /\ HasAt(s, Len(s) - Len(suffix) + 1, suffix)

RECURSIVE DropWhile(_, _)
\* s without its longest prefix of characters of set
DropWhile(s, set) ==
  IF s # <<>> /\ Head(s) \in set THEN DropWhile(Tail(s), set) ELSE s

\* lines 435-441: the text without a leading ```lang and a trailing ```
CleanFence(text) ==
  LET stripped == Strip(text)
  IN IF ~StartsWith(stripped, Fence) THEN stripped
     ELSE LET opened == DropWhile(DropWhile(SubSeq(stripped, 4, Len(stripped)), Letters),
                                  Whitespace)
          IN IF EndsWith(opened, Fence)
             THEN Strip(SubSeq(opened, 1, Len(opened) - 3))
             ELSE opened

\* dict.get on a decoded dict
DictGet(d, key) ==
  LET hits == SelectSeq(d.v, LAMBDA it : it.key = key)
  IN IF hits = <<>> THEN Absent ELSE hits[1].val

\* lines 449-457: the list under questions, items or data, else the first
\* value that is a list, else nothing
PickList(d) ==
  LET named == SelectSeq(<<<<"q", "u", "e", "s", "t", "i", "o", "n", "s">>,
                           <<"i", "t", "e", "m", "s">>,
                           <<"d", "a", "t", "a">>>>,
                         LAMBDA key : DictGet(d, key).k = "list")
      lists == SelectSeq(d.v, LAMBDA it : it.val.k = "list")
  IN IF named # <<>> THEN DictGet(d, named[1]).v
     ELSE IF lists # <<>> THEN lists[1].val.v
     ELSE <<>>

\* re.search(r'\[.*\]', content, re.DOTALL): from the first [ to the last ]
BracketSpan(text) ==
  LET opens == {i \in 1..Len(text) : text[i] = "["}
      closes == {i \in 1..Len(text) : text[i] = "]"}
      first == CHOOSE i \in opens : \A j \in opens : i <= j
      last == CHOOSE i \in closes : \A j \in closes : j <= i
  IN IF opens = {} \/ closes = {} THEN Raise("NoMatch")
     ELSE IF last < first THEN Raise("NoMatch")
     ELSE Return(SubSeq(text, first, last))

\* lines 432-472
ExtractJson(text) ==
  LET data == Loads(CleanFence(text))
  IN IF data.ok
     THEN CASE data.val.k = "dict" -> Return(PickList(data.val))
            [] data.val.k = "list" -> Return(data.val.v)
            [] OTHER -> Return(<<>>)
     ELSE IF data.err # "JSONDecodeError" THEN Raise(data.err)
     ELSE LET match == BracketSpan(text)
              again == IF match.ok THEN Loads(match.val) ELSE match
          IN IF again.ok THEN Return(again.val.v) ELSE Return(<<>>)

\* ------------------------------------------------------------------------
\* State of one extraction run of one exam
\* ------------------------------------------------------------------------
VARIABLES
  pc,            \* where the run stands
  status,        \* ExamStorage._index[exam_id]["status"]
  parsed,        \* parsed.json: <<>> when absent, else <<questions>>
  year,          \* the exam's year
  text_len,      \* len(markdown_text)
  sup_outcome,   \* how the Supervisor's completion call ended ("" before)
  split_plan,    \* what _smart_split returned
  marker_at,     \* per plan entry, the offset of its marker in the text
  text_chunks,   \* the chunks or windows handed to Workers
  outcomes,      \* per Worker call started, how its completion call ended
  results,       \* per dispatched Worker, the value gather collects
  completed,     \* the dispatched Workers in completion order
  all_questions, \* the merged raw records
  questions,     \* what parse returned
  err,           \* the exception that left parse ("" when none)
  route,         \* the orchestrator states passed, in order
  content,       \* the completion text handed to _extract_json
  recovered,     \* what _extract_json came to for that text
  tasks,         \* the extraction tasks created so far, each with its position
  files,         \* the Markdown files in the exam's directory
  debug_dir,     \* ExamParser.debug_dir of the one parser instance
  debug_files,   \* the debug artifacts written so far
  tokens,        \* GiteePaddleOCRClient.tokens
  current_token_idx, \* GiteePaddleOCRClient._current_token_idx
  tokens_tried,  \* _submit_task: its count of tokens given up
  attempt,       \* _submit_task: the attempt with the current token
  tried          \* the tokens a submission was posted with in this call

vars == <<pc, status, parsed, year, text_len, sup_outcome, split_plan, marker_at,
          text_chunks, outcomes, results, completed, all_questions,
          questions, err, route, content, recovered, tasks, files,
          debug_dir, debug_files, tokens, current_token_idx, tokens_tried,
          attempt, tried>>

\* the state of the service around the runs, and of the OCR client
service_state == <<tasks, files, debug_dir, debug_files>>
ocr_state == <<tokens, current_token_idx, tokens_tried, attempt, tried>>

\* ExamParser before its first parse: no debug_dir attribute
NoDir == ""

\* ExamService.__init__: no task yet, a fresh parser
ServiceIdle ==
  /\ tasks = <<>>
  /\ files = {}
  /\ debug_dir = NoDir
  /\ debug_files = {}

\* GiteePaddleOCRClient.__init__ without a submission
OcrIdle ==
  /\ tokens = <<>>
  /\ current_token_idx = 0
  /\ tokens_tried = 0
  /\ attempt = 0
  /\ tried = {}

\* the number of raw records the Workers have returned so far
Returned ==
  LET RECURSIVE Sum(_)
      Sum(i) == IF i = 0 THEN 0 ELSE Sum(i - 1) + Len(outcomes[i].recs)
  IN Sum(Len(outcomes))

\* ExamStorage.create_exam_entry and ExamService.upload_exam: the entry is
\* pending and the processing task is created
Init ==
  /\ pc = "created"
  /\ status = "pending"
  /\ parsed = <<>>
  /\ year \in Years
  /\ text_len = 0
  /\ sup_outcome = ""
  /\ split_plan = Null
  /\ marker_at = <<>>
  /\ text_chunks = <<>>
  /\ outcomes = <<>>
  /\ results = <<>>
  /\ completed = <<>>
  /\ all_questions = <<>>
  /\ questions = <<>>
  /\ err = ""
  /\ route = <<"Idle">>
  /\ content = <<>>
  /\ recovered = Return(<<>>)
  /\ ServiceIdle
  /\ OcrIdle

\* exam_service.py line 189: update_status(exam_id, "processing")
StartProcess ==
  /\ pc = "created"
  /\ status' = "processing"
  /\ pc' = "ocr"
  /\ UNCHANGED <<parsed, year, text_len, sup_outcome, split_plan, marker_at,
                 text_chunks, outcomes, results, completed,
                 all_questions, questions, err, route>>
  /\ UNCHANGED <<content, recovered, service_state, ocr_state>>

\* exam_service.py lines 191-212: OCR and cleaning give the text, or raise
OcrAndClean ==
  /\ pc = "ocr"
  /\ \/ /\ err' = "OcrError"
        /\ pc' = "raised"
        /\ UNCHANGED text_len
     \/ /\ text_len' \in TextLens
        /\ pc' = "parse"
        /\ UNCHANGED err
  /\ UNCHANGED <<status, parsed, year, sup_outcome, split_plan, marker_at,
                 text_chunks, outcomes, results, completed,
                 all_questions, questions, route>>
  /\ UNCHANGED <<content, recovered, service_state, ocr_state>>

\* the routing with the threshold itself counted as long
ParseBeginStrict ==
  /\ pc = "parse"
  /\ IF text_len < MAX_SINGLE_PARSE_CHARS
     THEN pc' = "single" /\ route' = Append(route, "SinglePass")
     ELSE pc' = "supervisor" /\ route' = Append(route, "SupervisedSplit")
  /\ UNCHANGED <<status, parsed, year, text_len, sup_outcome, split_plan,
                 marker_at, text_chunks, outcomes, results, completed,
                 all_questions, questions, err>>
  /\ UNCHANGED <<content, recovered, service_state, ocr_state>>

\* exam_parser.py lines 140-151: short text goes to a single Worker call,
\* long text to the Supervisor
ParseBegin ==
  /\ pc = "parse"
  /\ IF text_len <= MAX_SINGLE_PARSE_CHARS
     THEN pc' = "single" /\ route' = Append(route, "SinglePass")
     ELSE pc' = "supervisor" /\ route' = Append(route, "SupervisedSplit")
  /\ UNCHANGED <<status, parsed, year, text_len, sup_outcome, split_plan,
                 marker_at, text_chunks, outcomes, results, completed,
                 all_questions, questions, err>>
  /\ UNCHANGED <<content, recovered, service_state, ocr_state>>

\* lines 146-147: one Worker call on the whole text, then _post_process
SinglePass ==
  /\ pc = "single"
  /\ \E out \in WorkerOutcomes(RawPool, MaxRecords) :
       /\ outcomes' = Append(outcomes, out)
       /\ all_questions' = CallWorker(out).val
       /\ questions' = PostProcess(CallWorker(out).val, year)
  /\ text_chunks' = <<[lo |-> 0, hi |-> text_len]>>
  /\ pc' = "parsed"
  /\ route' = Append(route, "Assembling")
  /\ UNCHANGED <<status, parsed, year, text_len, sup_outcome, split_plan,
                 marker_at, results, completed, err>>
  /\ UNCHANGED <<content, recovered, service_state, ocr_state>>

\* line 157: the Supervisor's completion call
Supervisor ==
  /\ pc = "supervisor"
  /\ \E out \in SupervisorOutcomes :
       /\ sup_outcome' = out.kind
       /\ split_plan' = SmartSplit(out)
       /\ LET splits == IF out.val.k = "obj" THEN out.val.v.splits ELSE Null
              n == IF splits.k = "list" THEN Len(splits.v) ELSE 0
          IN marker_at' \in {at \in [1..n -> Offsets] :
                               \A i \in 1..n : at[i] \in EntryOffsets(splits.v[i])}
  /\ pc' = "plan"
  /\ UNCHANGED <<status, parsed, year, text_len, text_chunks, outcomes,
                 results, completed, all_questions, questions, err, route>>
  /\ UNCHANGED <<content, recovered, service_state, ocr_state>>

\* lines 160-169: no plan, or a plan without splits, means fallback;
\* .get on a plan that is not a dict raises
CheckPlan ==
  /\ pc = "plan"
  /\ IF ~Truthy(split_plan)
     THEN pc' = "fallback" /\ UNCHANGED err
     ELSE IF ~IsDict(split_plan)
     THEN pc' = "raised" /\ err' = "AttributeError"
     ELSE IF ~Truthy(Get(split_plan, "splits", Null))
     THEN pc' = "fallback" /\ UNCHANGED err
     ELSE pc' = "extract" /\ UNCHANGED err
  /\ UNCHANGED <<status, parsed, year, text_len, sup_outcome, split_plan,
                 marker_at, text_chunks, outcomes, results, completed,
                 all_questions, questions, route>>
  /\ UNCHANGED <<content, recovered, service_state, ocr_state>>

\* lines 175-179: chunks by markers; none means fallback
ExtractChunks ==
  /\ pc = "extract"
  /\ LET chunks == ExtractChunksByMarkers(text_len, split_plan.v.splits, marker_at)
     IN IF ~chunks.ok
        THEN pc' = "raised" /\ err' = chunks.err /\ UNCHANGED text_chunks
        ELSE IF chunks.val = <<>>
        THEN pc' = "fallback" /\ UNCHANGED <<err, text_chunks>>
        ELSE pc' = "dispatch" /\ text_chunks' = chunks.val /\ UNCHANGED err
  /\ UNCHANGED <<status, parsed, year, text_len, sup_outcome, split_plan,
                 marker_at, outcomes, results, completed,
                 all_questions, questions, route>>
  /\ UNCHANGED <<content, recovered, service_state, ocr_state>>

\* lines 165, 179 and 400-409: _fallback_parse gets the text, not the plan,
\* and cuts the sliding windows
FallbackBegin ==
  /\ pc = "fallback"
  /\ split_plan' = Null
  /\ marker_at' = <<>>
  /\ text_chunks' = Windows(text_len)
  /\ all_questions' = <<>>
  /\ pc' = "fb_worker"
  /\ route' = Append(route, "Fallback")
  /\ UNCHANGED <<status, parsed, year, text_len, sup_outcome, outcomes,
                 results, completed, questions, err>>
  /\ UNCHANGED <<content, recovered, service_state, ocr_state>>

\* lines 412-415: the next window's Worker call, awaited before the next one
FallbackWorker ==
  /\ pc = "fb_worker"
  /\ Len(outcomes) < Len(text_chunks)
  /\ \E out \in WorkerOutcomes(RawPool, MaxRecords - Returned) :
       /\ outcomes' = Append(outcomes, out)
       /\ all_questions' = all_questions \o CallWorker(out).val
  /\ UNCHANGED <<pc, status, parsed, year, text_len, sup_outcome, split_plan,
                 marker_at, text_chunks, results, completed, questions,
                 err, route>>
  /\ UNCHANGED <<content, recovered, service_state, ocr_state>>

\* lines 417-430: after the last window, dedup, sort and _post_process
FallbackFinish ==
  /\ pc = "fb_worker"
  /\ Len(outcomes) = Len(text_chunks)
  /\ LET r == FallbackAssemble(all_questions, year)
     IN IF r.ok
        THEN questions' = r.val /\ pc' = "parsed" /\ UNCHANGED err
        ELSE err' = r.err /\ pc' = "raised" /\ UNCHANGED questions
  /\ route' = Append(route, "Assembling")
  /\ UNCHANGED <<status, parsed, year, text_len, sup_outcome, split_plan,
                 marker_at, text_chunks, outcomes, results, completed,
                 all_questions>>
  /\ UNCHANGED <<content, recovered, service_state, ocr_state>>

\* exam_service.py lines 218-238 and exam_storage.py lines 127-143: the
\* paper is written to parsed.json and the entry becomes completed
SaveParsed ==
  /\ pc = "parsed"
  /\ parsed' = <<questions>>
  /\ status' = "completed"
  /\ pc' = "done"
  /\ route' = Append(route, "Done")
  /\ UNCHANGED <<year, text_len, sup_outcome, split_plan, marker_at,
                 text_chunks, outcomes, results, completed,
                 all_questions, questions, err>>
  /\ UNCHANGED <<content, recovered, service_state, ocr_state>>

\* exam_service.py lines 240-243: any exception marks the entry failed
HandleException ==
  /\ pc = "raised"
  /\ status' = "failed"
  /\ pc' = "done"
  /\ route' = Append(route, "Failed")
  /\ UNCHANGED <<parsed, year, text_len, sup_outcome, split_plan, marker_at,
                 text_chunks, outcomes, results, completed,
                 all_questions, questions, err>>
  /\ UNCHANGED <<content, recovered, service_state, ocr_state>>

Next ==
  \/ StartProcess
  \/ OcrAndClean
  \/ ParseBegin
  \/ SinglePass
  \/ Supervisor
  \/ CheckPlan
  \/ ExtractChunks
  \/ FallbackBegin
  \/ FallbackWorker
  \/ FallbackFinish
  \/ SaveParsed
  \/ HandleException

Spec == Init /\ [][Next]_vars

\* ------------------------------------------------------------------------
\* Phase 2 and Phase 3 of _parse_with_supervisor (lines 181-206)
\* ------------------------------------------------------------------------
InFlight == [kind |-> "pending", recs |-> <<>>]

Pending(i) == outcomes[i].kind = "pending"

\* a wait that returns as soon as one task has ended
FirstCompleted == \E i \in 1..Len(outcomes) : ~Pending(i)

\* line 189: asyncio.gather(*tasks, return_exceptions=True) returns when
\* every task has ended
GatherReturns == \A i \in 1..Len(outcomes) : ~Pending(i)

RECURSIVE MergeByCompletion(_, _)
\* the results taken in the order in which the Workers ended
MergeByCompletion(rs, i) ==
  IF i > Len(completed) THEN <<>>
  ELSE (IF rs[completed[i]].ok THEN rs[completed[i]].val ELSE <<>>)
         \o MergeByCompletion(rs, i + 1)

RECURSIVE MergeResults(_, _)
\* lines 193-200: the results in task order from position i on; an exception
\* is logged and skipped
MergeResults(rs, i) ==
  IF i > Len(rs) THEN <<>>
  ELSE (IF rs[i].ok THEN rs[i].val ELSE <<>>) \o MergeResults(rs, i + 1)

\* lines 182-187: one task per chunk
Dispatch ==
  /\ pc = "dispatch"
  /\ outcomes' = [i \in 1..Len(text_chunks) |-> InFlight]
  /\ results' = [i \in 1..Len(text_chunks) |-> Raise("Pending")]
  /\ pc' = "gather"
  /\ route' = Append(route, "Workers")
  /\ UNCHANGED <<status, parsed, year, text_len, sup_outcome, split_plan,
                 marker_at, text_chunks, completed, all_questions, questions,
                 err>>
  /\ UNCHANGED <<content, recovered, service_state, ocr_state>>

\* the completion call of Worker i ends, whatever the others are doing
WorkerDone(i) ==
  /\ pc = "gather"
  /\ Pending(i)
  /\ \E out \in WorkerOutcomes(SupervisedPool, MaxRecords - Returned) :
       /\ outcomes' = [outcomes EXCEPT ![i] = out]
       /\ results' = [results EXCEPT ![i] = CallWorker(out)]
  /\ completed' = Append(completed, i)
  /\ UNCHANGED <<pc, status, parsed, year, text_len, sup_outcome, split_plan,
                 marker_at, text_chunks, all_questions, questions, err, route>>
  /\ UNCHANGED <<content, recovered, service_state, ocr_state>>

\* lines 189-206: gather returns, the results are merged in task order,
\* sorted by index and post-processed
Assemble ==
  /\ pc = "gather"
  /\ GatherReturns
  /\ LET merged == MergeResults(results, 1)
         sorted == SortByIndex(merged)
     IN IF sorted.ok
        THEN /\ all_questions' = sorted.val
             /\ questions' = PostProcess(sorted.val, year)
             /\ pc' = "parsed"
             /\ UNCHANGED err
        ELSE /\ all_questions' = merged
             /\ err' = sorted.err
             /\ pc' = "raised"
             /\ UNCHANGED questions
  /\ route' = Append(route, "Assembling")
  /\ UNCHANGED <<status, parsed, year, text_len, sup_outcome, split_plan,
                 marker_at, text_chunks, outcomes, results, completed>>
  /\ UNCHANGED <<content, recovered, service_state, ocr_state>>

\* the offsets of n located markers
LocatedAt(n) == [i \in 1..n |-> (i - 1) * overlap]

\* the run at line 181, for a plan of n entries whose markers are all
\* located: _extract_chunks_by_markers has returned one chunk per entry.
\* No run of Spec gets here (RobustFind raises); this is the precondition
\* of Phase 2 and Phase 3 taken as given.
InitSupervised ==
  /\ pc = "dispatch"
  /\ status = "processing"
  /\ parsed = <<>>
  /\ year \in Years
  /\ text_len \in {t \in TextLens : t > MAX_SINGLE_PARSE_CHARS}
  /\ sup_outcome = "json"
  /\ \E n \in 1..MaxChunks :
       /\ split_plan = Plan(JList([i \in 1..n |-> Entry(JStr(<<"m">>))]))
       /\ marker_at = LocatedAt(n)
       /\ text_chunks = ChunksFrom(LocatedAt(n), text_len, 1)
  /\ outcomes = <<>>
  /\ results = <<>>
  /\ completed = <<>>
  /\ all_questions = <<>>
  /\ questions = <<>>
  /\ err = ""
  /\ route = <<"Idle", "SupervisedSplit">>
  /\ content = <<>>
  /\ recovered = Return(<<>>)
  /\ ServiceIdle
  /\ OcrIdle

NextSupervised ==
  \/ Dispatch
  \/ \E i \in 1..Len(outcomes) : WorkerDone(i)
  \/ Assemble
  \/ SaveParsed
  \/ HandleException

SpecSupervised == InitSupervised /\ [][NextSupervised]_vars

\* ------------------------------------------------------------------------
\* ExamParser._extract_chunks_by_markers once the markers are located
\* (lines 273-287)
\* ------------------------------------------------------------------------
\* the offsets at which the locator may find the marker of a plan entry
MarkerOffsets ==
  {0, 1, overlap, Step, Step + 1, chunk_size,
   MAX_SINGLE_PARSE_CHARS - 1, MAX_SINGLE_PARSE_CHARS}

\* the run at line 273, for a plan of n entries each of whose markers the
\* locator has found somewhere in the text
InitChunks ==
  /\ pc = "located"
  /\ status = "processing"
  /\ parsed = <<>>
  /\ year \in Years
  /\ text_len \in {t \in TextLens : t > MAX_SINGLE_PARSE_CHARS}
  /\ sup_outcome = "json"
  /\ \E n \in 1..MaxChunks :
       /\ split_plan = Plan(JList([i \in 1..n |-> Entry(JStr(<<"m">>))]))
       /\ marker_at \in [1..n -> MarkerOffsets]
  /\ text_chunks = <<>>
  /\ outcomes = <<>>
  /\ results = <<>>
  /\ completed = <<>>
  /\ all_questions = <<>>
  /\ questions = <<>>
  /\ err = ""
  /\ route = <<"Idle", "SupervisedSplit">>
  /\ content = <<>>
  /\ recovered = Return(<<>>)
  /\ ServiceIdle
  /\ OcrIdle

\* lines 273-287 and 175-179: the located offsets are sorted and the text is
\* cut from each offset to the next; no chunk means fallback
CutChunks ==
  /\ pc = "located"
  /\ LET chunks == ChunksFrom(SortOffsets(marker_at), text_len, 1)
     IN /\ text_chunks' = chunks
        /\ pc' = IF chunks = <<>> THEN "fallback" ELSE "dispatch"
  /\ UNCHANGED <<status, parsed, year, text_len, sup_outcome, split_plan,
                 marker_at, outcomes, results, completed, all_questions,
                 questions, err, route, content, recovered, service_state,
                 ocr_state>>

NextChunks == CutChunks

SpecChunks == InitChunks /\ [][NextChunks]_vars

\* ------------------------------------------------------------------------
\* ExamParser._post_process on its own (lines 474-486)
\* ------------------------------------------------------------------------
\* a record with content c and the sub-question records subs
Nest(c, subs) == Rec(JInt(1), JStr("qa"), JStr(c), JList(<<>>), Null, JList(subs))

\* a record nested five levels deep
Chain5 ==
  Nest(<<"a">>, <<Nest(<<"b">>, <<Nest(<<"c">>, <<Nest(<<"d">>,
    <<Nest(<<"e">>, <<>>)>>)>>)>>)>>)

\* three levels, the third carrying a sub_questions value that is no list
Chain3Odd ==
  Nest(<<"a">>, <<Nest(<<"b">>,
    <<JObj([Nest(<<"c">>, <<>>).v EXCEPT !["sub_questions"] = JInt(5)])>>)>>)

\* two sub-questions that repeat the index of their parent
Twins == Nest(<<"a">>, <<Good(1, <<"a">>), Good(1, <<"b">>)>>)

\* two sub-questions with two sub-questions each
Wide == Nest(<<"a">>, <<Twins, Twins>>)

\* a record whose first sub-question is not a record
BrokenSub == Nest(<<"a">>, <<JStr(<<"x">>), Good(2, <<"b">>)>>)

\* a record whose sub-question has a sub-question without content
BrokenDeep ==
  Nest(<<"a">>, <<Nest(<<"b">>, <<WithField("content", Null)>>)>>)

ConvertPool ==
  { Good(1, <<"a">>), Good(1, <<"b">>), JStr(<<"x">>), WithField("content", Null),
    Chain5, Chain3Odd, Twins, Wide, BrokenSub, BrokenDeep }

\* the raw records are handed to _post_process
InitConvert ==
  /\ pc = "convert"
  /\ status = "processing"
  /\ parsed = <<>>
  /\ year \in Years
  /\ text_len = 0
  /\ sup_outcome = ""
  /\ split_plan = Null
  /\ marker_at = <<>>
  /\ text_chunks = <<>>
  /\ outcomes = <<>>
  /\ results = <<>>
  /\ completed = <<>>
  /\ all_questions \in Responses(ConvertPool, MaxRecords)
  /\ questions = <<>>
  /\ err = ""
  /\ route = <<"Assembling">>
  /\ content = <<>>
  /\ recovered = Return(<<>>)
  /\ ServiceIdle
  /\ OcrIdle

\* lines 474-486
Convert ==
  /\ pc = "convert"
  /\ questions' = PostProcess(all_questions, year)
  /\ pc' = "converted"
  /\ UNCHANGED <<status, parsed, year, text_len, sup_outcome, split_plan,
                 marker_at, text_chunks, outcomes, results, completed,
                 all_questions, err, route, content, recovered,
                 service_state, ocr_state>>

NextConvert == Convert

SpecConvert == InitConvert /\ [][NextConvert]_vars

\* ------------------------------------------------------------------------
\* ExamParser._extract_json on its own (lines 432-472)
\* ------------------------------------------------------------------------
Quoted(s) == <<"\"">> \o s \o <<"\"">>

\* the text {"content":"<c>"} of a record
RecordText(c) ==
  <<"{">> \o Quoted(<<"c", "o", "n", "t", "e", "n", "t">>) \o <<":">> \o Quoted(c) \o <<"}">>

\* the text {"content":"<c>","options":["A"]} of a record
RecordWithOptionsText(c) ==
  <<"{">> \o Quoted(<<"c", "o", "n", "t", "e", "n", "t">>) \o <<":">> \o Quoted(c) \o <<",">>
    \o Quoted(<<"o", "p", "t", "i", "o", "n", "s">>) \o <<":", "[">> \o Quoted(<<"A">>) \o <<"]", "}">>

ArrayText(c) == <<"[">> \o RecordText(c) \o <<"]">>

\* the text {"questions":[...]} the Worker prompt asks for
WrappedText(c) ==
  <<"{">> \o Quoted(<<"q", "u", "e", "s", "t", "i", "o", "n", "s">>) \o <<":">> \o ArrayText(c) \o <<"}">>

Plain == <<"a">>
\* the content \{x\} of a formula, as the oracle writes it
Latex == <<"\\", "{", "x", "\\", "}">>

\* arrays nested one deeper than json.loads can decode
DeepText == [i \in 1..(MaxNesting + 1) |-> "["] \o [i \in 1..(MaxNesting + 1) |-> "]"]

RECURSIVE TextsOver(_, _)
\* the texts of at most n characters of a set
TextsOver(chars, n) ==
  IF n = 0 THEN {<<>>}
  ELSE LET shorter == TextsOver(chars, n - 1)
       IN shorter \cup {Append(t, c) : t \in shorter, c \in chars}

\* the completion texts tried
RecoverInputs ==
  { ArrayText(Plain), WrappedText(Plain), RecordText(Plain),
    RecordWithOptionsText(Plain),
    ArrayText(Latex), WrappedText(Latex), RecordText(Latex),
    Fence \o <<"j", "s", "o", "n">> \o <<"\n">> \o ArrayText(Plain) \o <<"\n">> \o Fence,
    Fence \o <<"\n">> \o WrappedText(Plain) \o Fence,
    <<"H", "e", "r", "e", ":", " ">> \o ArrayText(Plain) \o <<" ", "o", "k">>,
    ArrayText(Plain) \o <<" ">> \o ArrayText(Plain),
    <<"[">> \o RecordText(Plain) \o <<",", "]">>,
    DeepText, SubSeq(DeepText, 1, MaxNesting + 1),
    SubSeq(DeepText, 2, 2 * MaxNesting + 1),
    <<"7">>, Quoted(Plain), <<"n", "u", "l", "l">> }
    \cup TextsOver({"[", "]", "1", ","}, MaxText)

\* the completion text is handed to _extract_json
InitRecover ==
  /\ pc = "recover"
  /\ status = "processing"
  /\ parsed = <<>>
  /\ year \in Years
  /\ text_len = 0
  /\ sup_outcome = ""
  /\ split_plan = Null
  /\ marker_at = <<>>
  /\ text_chunks = <<>>
  /\ outcomes = <<>>
  /\ results = <<>>
  /\ completed = <<>>
  /\ all_questions = <<>>
  /\ questions = <<>>
  /\ err = ""
  /\ route = <<"Workers">>
  /\ content \in RecoverInputs
  /\ recovered = Return(<<>>)
  /\ ServiceIdle
  /\ OcrIdle

\* line 373: return self._extract_json(content)
Recover ==
  /\ pc = "recover"
  /\ recovered' = ExtractJson(content)
  /\ pc' = "recovered"
  /\ UNCHANGED <<status, parsed, year, text_len, sup_outcome, split_plan,
                 marker_at, text_chunks, outcomes, results, completed,
                 all_questions, questions, err, route, content,
                 service_state, ocr_state>>

NextRecover == Recover

SpecRecover == InitRecover /\ [][NextRecover]_vars

\* ------------------------------------------------------------------------
\* ExamParser._fallback_parse: the sliding windows (lines 404-409)
\* ------------------------------------------------------------------------
\* the parser's variables that a run of one of its parts leaves alone
ParserIdle ==
  /\ sup_outcome = ""
  /\ split_plan = Null
  /\ marker_at = <<>>
  /\ outcomes = <<>>
  /\ results = <<>>
  /\ completed = <<>>
  /\ err = ""
  /\ content = <<>>
  /\ recovered = Return(<<>>)

\* the lengths of the texts that reach the fallback (all above the
\* single-pass threshold): around every window start, overlap and window end
WindowLens ==
  {n \in {w * Step + d : w \in 1..MaxWindows,
                         d \in {1, 2, overlap \div 2, overlap - 1, overlap,
                                overlap + 1, Step \div 2, Step - 1, Step}} :
     n > MAX_SINGLE_PARSE_CHARS}

\* _fallback_parse is entered with the text (lines 165 and 179)
InitWindows ==
  /\ pc = "fallback"
  /\ status = "processing"
  /\ parsed = <<>>
  /\ year \in Years
  /\ text_len \in WindowLens
  /\ text_chunks = <<>>
  /\ all_questions = <<>>
  /\ questions = <<>>
  /\ route = <<"Fallback">>
  /\ ParserIdle
  /\ ServiceIdle
  /\ OcrIdle

\* lines 404-409: the windows are cut
SlideWindows ==
  /\ pc = "fallback"
  /\ text_chunks' = Windows(text_len)
  /\ pc' = "fb_worker"
  /\ UNCHANGED <<status, parsed, year, text_len, sup_outcome, split_plan,
                 marker_at, outcomes, results, completed, all_questions,
                 questions, err, route, content, recovered, service_state,
                 ocr_state>>

NextWindows == SlideWindows

SpecWindows == InitWindows /\ [][NextWindows]_vars

\* ------------------------------------------------------------------------
\* ExamParser._fallback_parse: the deduplication (lines 417-427)
\* ------------------------------------------------------------------------
\* n letters a
Pad(n) == [i \in 1..n |-> "a"]

\* the records the windows' Workers may return: question 1 twice with
\* whitespace as the only difference, inside the fingerprint's reach and at
\* its end; two different questions that both begin with a run of blanks;
\* question 2 with question 1's content; and records that are not an object,
\* lack a field or have a null content
DedupPool ==
  { Good(1, <<"a", "b">>), Good(1, <<"a", " ", "b">>), Good(2, <<"a", "b">>),
    Good(1, Pad(FINGERPRINT_LEN - 1) \o <<"b">>),
    Good(1, Pad(FINGERPRINT_LEN - 1) \o <<" ", "b">>),
    Good(3, [i \in 1..FINGERPRINT_LEN |-> " "] \o <<"x">>),
    Good(3, [i \in 1..FINGERPRINT_LEN |-> " "] \o <<"y">>),
    JStr(<<"x">>),
    WithField("index", Absent),
    WithField("content", Absent),
    WithField("content", Null) }

\* the windows' Workers have returned; all_questions holds their records in
\* window order (lines 411-415)
InitDedup ==
  /\ pc = "dedup"
  /\ status = "processing"
  /\ parsed = <<>>
  /\ year \in Years
  /\ text_len = MAX_SINGLE_PARSE_CHARS + 1
  /\ text_chunks = Windows(text_len)
  /\ all_questions \in Responses(DedupPool, MaxRecords)
  /\ questions = <<>>
  /\ route = <<"Fallback">>
  /\ ParserIdle
  /\ ServiceIdle
  /\ OcrIdle

\* lines 417-427: the loop that keeps the first record of every key
Deduplicate ==
  /\ pc = "dedup"
  /\ LET unique_questions == Dedup(all_questions, {}, 1)
     IN IF unique_questions.ok
        THEN questions' = unique_questions.val /\ pc' = "deduped" /\ UNCHANGED err
        ELSE err' = unique_questions.err /\ pc' = "raised" /\ UNCHANGED questions
  /\ UNCHANGED <<status, parsed, year, text_len, sup_outcome, split_plan,
                 marker_at, text_chunks, outcomes, results, completed,
                 all_questions, route, content, recovered, service_state,
                 ocr_state>>

NextDedup == Deduplicate

SpecDedup == InitDedup /\ [][NextDedup]_vars

\* ------------------------------------------------------------------------
\* ExamService and ExamStorage: the runs of one exam on the event loop
\* (exam_service.py lines 46-243, exam_storage.py lines 127-208)
\* ------------------------------------------------------------------------
\* self._index has no entry for the exam
NoEntry == "NoEntry"

\* exam_storage.py lines 145-152: update_status writes only into an entry
\* that exists
UpdateStatus(st, new) == IF st # NoEntry THEN new ELSE st

\* the except clauses keep the status as it is (no update_status call)
LeaveStatus(st) == st

\* exam_service.py lines 181-184 and 240-243: the except clauses
MarkFailed(st) == UpdateStatus(st, "failed")

\* asyncio.create_task
Task(kind) == [kind |-> kind, pc |-> "created"]

\* the tasks that are created or inside a stretch of code without an await:
\* such a task runs before any request handler does (the loop runs callbacks
\* in the order they were scheduled, and OCR is a blocking call)
Scheduled == {t \in 1..Len(tasks) : tasks[t].pc \in {"created", "started"}}

\* the tasks that have not finished
InFlightRuns == {t \in 1..Len(tasks) : tasks[t].pc # "done"}

\* exam_storage.py lines 154-163: get_exam finds parsed.json or returns None
GetExam == IF parsed # <<>> THEN parsed[1] ELSE Null

\* upload_exam has returned (lines 64-96): the entry is pending, the PDF is
\* saved and the processing task is created
InitRuns ==
  /\ pc = "serving"
  /\ status = "pending"
  /\ parsed = <<>>
  /\ year \in Years
  /\ text_len = 0
  /\ text_chunks = <<>>
  /\ all_questions = <<>>
  /\ questions = <<>>
  /\ route = <<>>
  /\ ParserIdle
  /\ tasks = <<Task("process")>>
  /\ files = {"source.pdf"}
  /\ debug_dir = NoDir
  /\ debug_files = {}
  /\ OcrIdle

\* what no step of a run or request of this part touches
RunsFrame ==
  UNCHANGED <<pc, year, text_len, sup_outcome, split_plan, marker_at,
              text_chunks, outcomes, results, completed, all_questions,
              questions, err, route, content, recovered, debug_dir,
              debug_files, ocr_state>>

\* exam_service.py line 189 and line 124: a task starts and marks the exam
\* processing
RunStart(t) ==
  /\ tasks[t].pc = "created"
  /\ status' = UpdateStatus(status, "processing")
  /\ tasks' = [tasks EXCEPT ![t].pc = "started"]
  /\ UNCHANGED <<parsed, files>>
  /\ RunsFrame

\* exam_service.py lines 191-216: the PDF is read by OCR (a blocking call),
\* the Markdown is cleaned and saved and parse is awaited; any exception on
\* the way goes to the except clause
ProcessOcr(t) ==
  /\ tasks[t].kind = "process"
  /\ tasks[t].pc = "started"
  /\ \/ /\ status # NoEntry
        /\ "source.pdf" \in files
        /\ files' = files \cup {"raw.md", "cleaned.md"}
        /\ tasks' = [tasks EXCEPT ![t].pc = "parse"]
        /\ UNCHANGED status
     \/ /\ status' = MarkFailed(status)
        /\ tasks' = [tasks EXCEPT ![t].pc = "done"]
        /\ UNCHANGED files
  /\ UNCHANGED parsed
  /\ RunsFrame

\* exam_service.py lines 125-157: the reparse reads cleaned.md, or cleans
\* raw.md, and awaits parse; without either file it marks the exam failed
\* and returns (line 152); an exception goes to the except clause
ReparseRead(t) ==
  /\ tasks[t].kind = "reparse"
  /\ tasks[t].pc = "started"
  /\ \/ /\ status # NoEntry
        /\ files \cap {"raw.md", "cleaned.md"} # {}
        /\ files' = files \cup {"cleaned.md"}
        /\ tasks' = [tasks EXCEPT ![t].pc = "parse"]
        /\ UNCHANGED status
     \/ /\ status # NoEntry
        /\ files \cap {"raw.md", "cleaned.md"} = {}
        /\ status' = UpdateStatus(status, "failed")
        /\ tasks' = [tasks EXCEPT ![t].pc = "done"]
        /\ UNCHANGED files
     \/ /\ status' = MarkFailed(status)
        /\ tasks' = [tasks EXCEPT ![t].pc = "done"]
        /\ UNCHANGED files
  /\ UNCHANGED parsed
  /\ RunsFrame

\* exam_service.py lines 159-179 and 218-238 with exam_storage.py lines
\* 127-143: parse has returned; parsed.json is written into the exam's
\* directory (get_exam_dir creates it when it is missing) and the entry, when
\* there is one, becomes completed
ParseReturns(t) ==
  /\ tasks[t].pc = "parse"
  /\ Scheduled = {}
  /\ parsed' = <<[written_by |-> t]>>
  /\ status' = UpdateStatus(status, "completed")
  /\ tasks' = [tasks EXCEPT ![t].pc = "done"]
  /\ UNCHANGED files
  /\ RunsFrame

\* exam_service.py lines 181-184 and 240-243: parse, or the construction or
\* saving of the paper, has raised
ParseRaises(t) ==
  /\ tasks[t].pc = "parse"
  /\ Scheduled = {}
  /\ status' = MarkFailed(status)
  /\ tasks' = [tasks EXCEPT ![t].pc = "done"]
  /\ UNCHANGED <<parsed, files>>
  /\ RunsFrame

\* exam_service.py lines 98-119: reparse_exam creates a task for an exam
\* that is in the index, whatever its status
ReparseExam ==
  /\ Scheduled = {}
  /\ Len(tasks) < 1 + MaxReparses
  /\ status # NoEntry
  /\ tasks' = Append(tasks, Task("reparse"))
  /\ UNCHANGED <<status, parsed, files>>
  /\ RunsFrame

\* exam_storage.py lines 198-208: the exam's directory is removed, and so
\* is its entry when there is one (the call then returns True)
DeleteExam ==
  /\ Scheduled = {}
  /\ files' = {}
  /\ parsed' = <<>>
  /\ status' = NoEntry
  /\ UNCHANGED tasks
  /\ RunsFrame

\* one step of task t
RunStep(t) ==
  \/ RunStart(t)
  \/ ProcessOcr(t)
  \/ ReparseRead(t)
  \/ ParseReturns(t)
  \/ ParseRaises(t)

NextRuns ==
  \/ \E t \in 1..Len(tasks) : RunStart(t)
  \/ \E t \in 1..Len(tasks) : ProcessOcr(t)
  \/ \E t \in 1..Len(tasks) : ReparseRead(t)
  \/ \E t \in 1..Len(tasks) : ParseReturns(t)
  \/ \E t \in 1..Len(tasks) : ParseRaises(t)
  \/ ReparseExam
  \/ DeleteExam

SpecRuns == InitRuns /\ [][NextRuns]_vars

\* every created task is run, and every external call (OCR, Supervisor,
\* Worker) returns or raises
SpecRunsFair ==
  SpecRuns /\ \A t \in 1..(1 + MaxReparses) : WF_vars(t <= Len(tasks) /\ RunStep(t))

\* ------------------------------------------------------------------------
\* ExamParser.parse and its debug artifacts, for runs of different exams on
\* the one parser of the service (exam_parser.py lines 134-165, 352-397)
\* ------------------------------------------------------------------------
\* exam_parser.py lines 135-136: the debug directory of an exam
DebugDirOf(exam) == "exams/" \o ToString(exam) \o "/debug"

\* exam_parser.py lines 379-397: _save_debug_json and _save_debug_text write
\* the file into whatever self.debug_dir is at the time of the call
SaveDebug(name, run) ==
  IF debug_dir # NoDir
  THEN debug_files \cup {[dir |-> debug_dir, name |-> name, exam |-> tasks[run].exam]}
  ELSE debug_files

\* the runs of MaxExams exams are about to await self.parser.parse, each with
\* a text below or above the single-pass threshold
InitDebug ==
  /\ pc = "serving"
  /\ status = "processing"
  /\ parsed = <<>>
  /\ year \in Years
  /\ text_len = 0
  /\ text_chunks = <<>>
  /\ all_questions = <<>>
  /\ questions = <<>>
  /\ route = <<>>
  /\ ParserIdle
  /\ \E long \in [1..MaxExams -> BOOLEAN] :
       tasks = [e \in 1..MaxExams |-> [exam |-> e, pc |-> "ready", long |-> long[e]]]
  /\ files = {}
  /\ debug_dir = NoDir
  /\ debug_files = {}
  /\ OcrIdle

\* what the steps of parse leave alone here
DebugFrame ==
  UNCHANGED <<pc, status, parsed, year, text_len, sup_outcome, split_plan,
              marker_at, text_chunks, outcomes, results, completed,
              all_questions, questions, err, route, content, recovered,
              files, ocr_state>>

\* lines 134-151 up to the first await: parse stores the exam's debug
\* directory in the parser and starts the Worker call (short text) or the
\* Supervisor call (long text)
ParseEnter(r) ==
  /\ tasks[r].pc = "ready"
  /\ debug_dir' = DebugDirOf(tasks[r].exam)
  /\ tasks' = [tasks EXCEPT ![r].pc = IF tasks[r].long THEN "supervisor" ELSE "worker"]
  /\ UNCHANGED debug_files
  /\ DebugFrame

\* lines 352-373 for the single-pass call (chunk_index=1): a 200 response is
\* saved as worker_01_response.json; a non-200 response or an exception
\* saves nothing
WorkerResponds(r) ==
  /\ tasks[r].pc = "worker"
  /\ \E ok \in BOOLEAN :
       debug_files' = IF ok THEN SaveDebug("worker_01_response.json", r)
                      ELSE debug_files
  /\ tasks' = [tasks EXCEPT ![r].pc = "returned"]
  /\ UNCHANGED debug_dir
  /\ DebugFrame

\* lines 157-165: a plan that is not empty is saved as supervisor_plan.json;
\* what follows (the NameError of the locator, or the fallback, whose Worker
\* calls carry no exam_id) saves nothing
SupervisorResponds(r) ==
  /\ tasks[r].pc = "supervisor"
  /\ \E plan \in BOOLEAN :
       debug_files' = IF plan THEN SaveDebug("supervisor_plan.json", r)
                      ELSE debug_files
  /\ tasks' = [tasks EXCEPT ![r].pc = "returned"]
  /\ UNCHANGED debug_dir
  /\ DebugFrame

NextDebug ==
  \/ \E r \in 1..Len(tasks) : ParseEnter(r)
  \/ \E r \in 1..Len(tasks) : WorkerResponds(r)
  \/ \E r \in 1..Len(tasks) : SupervisorResponds(r)

SpecDebug == InitDebug /\ [][NextDebug]_vars

\* ------------------------------------------------------------------------
\* GiteePaddleOCRClient._submit_task and _rotate_token
\* (paddle_ocr_client.py lines 65-80 and 125-210)
\* ------------------------------------------------------------------------
\* the client of parse_pdf: at least one token (lines 47 and 89-90), the
\* index at its initial value
InitOcr ==
  /\ pc = "ocr_idle"
  /\ status = "processing"
  /\ parsed = <<>>
  /\ year \in Years
  /\ text_len = 0
  /\ text_chunks = <<>>
  /\ all_questions = <<>>
  /\ questions = <<>>
  /\ route = <<>>
  /\ ParserIdle
  /\ ServiceIdle
  /\ \E n \in 1..MaxTokens : tokens = [i \in 1..n |-> "token" \o ToString(i)]
  /\ current_token_idx = 0
  /\ tokens_tried = 0
  /\ attempt = 0
  /\ tried = {}

\* what the OCR client's steps leave alone
OcrFrame ==
  UNCHANGED <<status, parsed, year, text_len, sup_outcome, split_plan,
              marker_at, text_chunks, outcomes, results, completed,
              all_questions, questions, err, route, content, recovered,
              service_state, tokens>>

\* lines 65-80: the index after _rotate_token, and what it returns
RotateToken(idx) ==
  IF Len(tokens) <= 1 THEN [idx |-> idx, switched |-> FALSE]
  ELSE LET next_idx == (idx + 1) % Len(tokens)
       IN IF next_idx = 0 THEN [idx |-> 0, switched |-> FALSE]
          ELSE [idx |-> next_idx, switched |-> TRUE]

\* lines 130-133: a call of _submit_task begins; the index is what the
\* earlier calls left
SubmitTask ==
  /\ pc \in {"ocr_idle", "submitted", "gave_up", "exhausted"}
  /\ tokens_tried' = 0
  /\ attempt' = 0
  /\ tried' = {}
  /\ pc' = IF 0 < Len(tokens) THEN "posting" ELSE "exhausted"
  /\ UNCHANGED current_token_idx
  /\ OcrFrame

\* lines 200-210: after the inner loop was left by break, the token is
\* rotated; the call goes on with the next token or raises
AfterBreak ==
  LET rotated == RotateToken(current_token_idx)
  IN /\ current_token_idx' = rotated.idx
     /\ attempt' = 0
     /\ IF rotated.switched
        THEN /\ tokens_tried' = tokens_tried + 1
             /\ pc' = IF tokens_tried + 1 < Len(tokens) THEN "posting" ELSE "exhausted"
        ELSE /\ pc' = "gave_up"
             /\ UNCHANGED tokens_tried

\* lines 135-198: one submission with the current token. The response holds
\* a task id (return), or is 401, 403 or error_code 18 (PermissionError:
\* break), or the post fails otherwise (retry up to max_retry times, then
\* break)
Post ==
  /\ pc = "posting"
  /\ tried' = tried \cup {current_token_idx}
  /\ \E response \in {"task", "token", "error"} :
       CASE response = "task" ->
              pc' = "submitted" /\ UNCHANGED <<current_token_idx, tokens_tried, attempt>>
         [] response = "token" -> AfterBreak
         [] OTHER ->
              IF attempt >= max_retry THEN AfterBreak
              ELSE /\ attempt' = attempt + 1
                   /\ UNCHANGED <<pc, current_token_idx, tokens_tried>>
  /\ OcrFrame

NextOcr == SubmitTask \/ Post

SpecOcr == InitOcr /\ [][NextOcr]_vars

\* ------------------------------------------------------------------------
\* Properties
\* ------------------------------------------------------------------------
Range(f) == {f[i] : i \in 1..Len(f)}

RECURSIVE Flatten(_, _)
\* the records of the calls i.. in call order
Flatten(outs, i) ==
  IF i > Len(outs) THEN <<>> ELSE outs[i].recs \o Flatten(outs, i + 1)

WorkerFailed(i) == outcomes[i].kind \in {"transport", "non200"}

C2_AssemblyAfterAllWorkers ==
  ("Assembling" \in Range(route) /\ "Workers" \in Range(route))
  => /\ Len(outcomes) = Len(text_chunks)
     /\ \A i \in 1..Len(outcomes) : ~Pending(i)

\* C2 witness: two Workers ended in the reverse of chunk order and assembly
\* has run.
C2_Witness ==
  /\ pc = "parsed"
  /\ "Workers" \in Range(route)
  /\ completed = <<2, 1>>

\* a dict plan with a list of splits, one of whose entries has a non-empty
\* marker that occurs in the text
AnchoredPlan ==
  /\ sup_outcome = "json"
  /\ IsDict(split_plan)
  /\ split_plan.v.splits.k = "list"
  /\ \E i \in 1..Len(marker_at) :
       /\ IsDict(split_plan.v.splits.v[i])
       /\ Truthy(Get(split_plan.v.splits.v[i], "start_marker", JStr(<<>>)))
       /\ marker_at[i] # NotFound

\* C3: for long text, a plan with at least one entry whose non-empty marker
\* occurs in the text takes the run from SupervisedSplit to the Workers and
\* to Assembling; the run neither raises before that nor falls back.
C3_AnchoredPlanReachesWorkers ==
  (AnchoredPlan /\ pc \in {"raised", "fallback", "done"})
  => /\ "Workers" \in Range(route)
     /\ "Assembling" \in Range(route)
     /\ "Fallback" \notin Range(route)

\* a dict plan whose splits are dict entries, with at least one non-empty
\* marker, none of which occurs in the text
UnanchoredPlan ==
  /\ sup_outcome = "json"
  /\ IsDict(split_plan)
  /\ split_plan.v.splits.k = "list"
  /\ \A i \in 1..Len(marker_at) :
       IsDict(split_plan.v.splits.v[i]) /\ marker_at[i] = NotFound
  /\ \E i \in 1..Len(marker_at) :
       Truthy(Get(split_plan.v.splits.v[i], "start_marker", JStr(<<>>)))

\* C4: an entry whose marker cannot be located is discarded without an
\* exception; when no entry can be located the run switches to the Fallback
\* Chunker and does not raise.
C4_UnlocatedMarkerFallsBack ==
  (UnanchoredPlan /\ pc \notin {"plan", "extract"}) => pc = "fallback"

\* the Supervisor gave no JSON object that carries a non-empty splits list
SupervisorFailed ==
  \/ sup_outcome \in {"transport", "non200", "badjson"}
  \/ /\ sup_outcome = "json"
     /\ ~(IsDict(split_plan) /\ split_plan.v.splits.k = "list"
            /\ split_plan.v.splits.v # <<>>)

\* C5: when the Supervisor call fails, or yields anything but a JSON object
\* with a non-empty splits list, the run gets to the Fallback Chunker: it
\* never raises before the fallback has run and never goes on to cut chunks.
C5_SupervisorFailureFallsBack ==
  (SupervisorFailed /\ pc \notin {"plan", "fallback"})
  => "Fallback" \in Range(route)

\* C6: a run whose Workers were called and recovered zero records ends as a
\* failed run, not as a completed run with an empty question list.
C6_ZeroRecordsIsFailure ==
  (pc = "done" /\ Len(outcomes) > 0 /\ Returned = 0) => status = "failed"

\* the sort key the claim names: the index, a missing index counting as 0
KeyOf(q) == IF q.v.index.k = "absent" THEN JInt(0) ELSE q.v.index

\* C7: in the supervised path the assembled records are the Workers' records
\* in ascending index order (a missing index as 0), records of equal index in
\* chunk order and then in-chunk order, and the questions follow that order;
\* the list is a function of the per-chunk records, not of completion order.
C7_OrderByIndexOnly ==
  (pc \in {"parsed", "done"} /\ "Workers" \in Range(route) /\ err = "")
  => LET cat == Flatten(outcomes, 1)
         n == Len(all_questions)
     IN /\ n = Len(cat)
        /\ \A j, k \in 1..n :
             j < k => ~KeyLess(KeyOf(all_questions[k]), KeyOf(all_questions[j]))
        /\ \A q \in Range(cat) :
             SelectSeq(all_questions, LAMBDA r : KeyOf(r) = KeyOf(q))
               = SelectSeq(cat, LAMBDA r : KeyOf(r) = KeyOf(q))
        /\ \A j \in 1..Len(questions) :
             /\ questions[j].index \in 1..n
             /\ questions[j].original_text
                  = all_questions[questions[j].index].v.content.v
             /\ j > 1 => questions[j - 1].index < questions[j].index

\* C7 witness: the second Worker ended first, and the two Workers returned
\* records of equal index and different content, both assembled.
C7_Witness ==
  /\ pc = "parsed"
  /\ completed = <<2, 1>>
  /\ Len(outcomes[1].recs) = 1 /\ Len(outcomes[2].recs) = 1
  /\ Len(questions) = 2
  /\ KeyOf(outcomes[1].recs[1]) = KeyOf(outcomes[2].recs[1])
  /\ questions[1].original_text # questions[2].original_text

\* C8: every Question carries the index of its source record; shown on the
\* single-pass runs in which every record was converted, where the k-th
\* question comes from the k-th record, for top-level and nested questions.
C8_IndexPreserved ==
  (pc = "parsed" /\ "SinglePass" \in Range(route)
     /\ Len(questions) = Len(all_questions))
  => \A k \in 1..Len(questions) :
       LET src == all_questions[k]
       IN /\ src.v.index.k = "int" => questions[k].index = src.v.index.v
          /\ (src.v.sub_questions.k = "list"
                /\ Len(questions[k].sub_questions) = Len(src.v.sub_questions.v))
             => \A m \in 1..Len(src.v.sub_questions.v) :
                  src.v.sub_questions.v[m].v.index.k = "int"
                    => questions[k].sub_questions[m].index
                         = src.v.sub_questions.v[m].v.index.v

\* C9: a malformed record is only skipped: once the Workers have been called
\* the run never aborts, and every well-formed record the Workers returned
\* has its question in the result.
C9_MalformedRecordOnlySkipped ==
  /\ Len(outcomes) > 0 => pc # "raised"
  /\ pc = "parsed"
       => \A q \in Range(Flatten(outcomes, 1)) \cap WellFormed :
            \E j \in 1..Len(questions) :
              questions[j].original_text = q.v.content.v

\* C10: a record whose score or type is odd is always converted, with a score
\* that is a float or null and a type of the enum; shown on the single-pass
\* runs, where the question of the k-th record has index k.
C10_BadScoreOrTypeCoerced ==
  (pc = "parsed" /\ "SinglePass" \in Range(route))
  => \A k \in 1..Len(all_questions) :
       all_questions[k] \in OddScoreOrType
         => \E j \in 1..Len(questions) :
              /\ questions[j].index = k
              /\ questions[j].type \in QuestionType
              /\ questions[j].score.k \in {"none", "float"}

\* ------------------------------------------------------------------------
\* Properties of the question tree
\* ------------------------------------------------------------------------
RECURSIVE Height(_)
\* the number of levels of a question tree
Height(q) ==
  LET RECURSIVE MaxFrom(_)
      MaxFrom(i) ==
        IF i > Len(q.sub_questions) THEN 0
        ELSE LET h == Height(q.sub_questions[i])
                 r == MaxFrom(i + 1)
             IN IF h > r THEN h ELSE r
  IN 1 + MaxFrom(1)

RECURSIVE Nodes(_)
\* every question of a list of question trees, parents before children
Nodes(qs) ==
  IF qs = <<>> THEN <<>>
  ELSE <<Head(qs)>> \o Nodes(Head(qs).sub_questions) \o Nodes(Tail(qs))

\* the sub-question records of a raw record (none when it carries no list)
SubRecords(src) ==
  IF IsDict(src) /\ src.v.sub_questions.k = "list" THEN src.v.sub_questions.v ELSE <<>>

RECURSIVE SourceDepth(_)
\* the number of levels of a raw record
SourceDepth(src) ==
  LET subs == SubRecords(src)
      RECURSIVE MaxFrom(_)
      MaxFrom(i) ==
        IF i > Len(subs) THEN 0
        ELSE LET h == SourceDepth(subs[i])
                 r == MaxFrom(i + 1)
             IN IF h > r THEN h ELSE r
  IN 1 + MaxFrom(1)

\* C11: whatever the nesting depth of the records, no question tree has more
\* than 3 levels; a question at level 3 keeps the content of its record and
\* has no sub-questions; and a record nested deeper than 3 levels is
\* converted, to a tree of exactly 3 levels, not dropped by an exception.
C11_DepthCapped ==
  pc = "converted"
  => /\ \A j \in 1..Len(questions) : Height(questions[j]) <= 3
     /\ \A j \in 1..Len(questions) :
          LET q1 == questions[j]
              s1 == all_questions[q1.index]
          IN \A a \in 1..Len(q1.sub_questions) :
               LET q2 == q1.sub_questions[a]
                   s2 == SubRecords(s1)[q2.index]
               IN \A b \in 1..Len(q2.sub_questions) :
                    LET q3 == q2.sub_questions[b]
                        s3 == SubRecords(s2)[q3.index]
                    IN /\ q3.sub_questions = <<>>
                       /\ q3.content = Strip(s3.v.content.v)
                       /\ q3.original_text = s3.v.content.v
     /\ \A k \in 1..Len(all_questions) :
          all_questions[k] \in {Chain5, Chain3Odd}
            => \E j \in 1..Len(questions) :
                 questions[j].index = k /\ Height(questions[j]) = 3

\* C11 witness: the record nested five levels deep has been converted and
\* its tree ends at the third level, with that level's content.
C11_Witness ==
  /\ pc = "converted"
  /\ all_questions = <<Chain5>>
  /\ SourceDepth(all_questions[1]) = 5
  /\ Len(questions) = 1
  /\ questions[1].sub_questions[1].sub_questions[1].content = <<"c">>
  /\ questions[1].sub_questions[1].sub_questions[1].sub_questions = <<>>

\* the index values of a sibling list are pairwise distinct
DistinctIndex(qs) ==
  \A i, j \in 1..Len(qs) : i # j => qs[i].index # qs[j].index

\* C12: in the assembled trees, the index values of every sibling list (the
\* top-level list and the sub_questions of every question) are pairwise
\* distinct, and the id values of all questions of all trees are pairwise
\* distinct, whatever indexes the raw records carry and whichever are skipped.
C12_IndexAndIdUnique ==
  pc = "converted"
  => LET all == Nodes(questions)
     IN /\ DistinctIndex(questions)
        /\ \A n \in 1..Len(all) : DistinctIndex(all[n].sub_questions)
        /\ \A m, n \in 1..Len(all) : m # n => all[m].id # all[n].id

\* C12 witness: the first record was skipped, and the second was converted
\* with two sub-questions whose records both carry the index of the parent's.
C12_Witness ==
  /\ pc = "converted"
  /\ all_questions = <<JStr(<<"x">>), Twins>>
  /\ Len(questions) = 1
  /\ Len(questions[1].sub_questions) = 2
  /\ SubRecords(Twins)[1].v.index = SubRecords(Twins)[2].v.index

\* C13: the id of a top-level question is "{year}-Q{index}" and the id of a
\* sub-question is "{id of the question that contains it}-{index}", index
\* being the question's own index field.
C13_HierarchicalId ==
  pc = "converted"
  => LET all == Nodes(questions)
     IN /\ \A j \in 1..Len(questions) :
             questions[j].id
               = ToString(year) \o "-Q" \o ToString(questions[j].index)
        /\ \A n \in 1..Len(all) :
             \A c \in 1..Len(all[n].sub_questions) :
               all[n].sub_questions[c].id
                 = all[n].id \o "-" \o ToString(all[n].sub_questions[c].index)

\* C13 witness: the second record was converted three levels deep and the
\* second sub-question of its second sub-question has the id 2024-Q2-2-2.
C13_Witness ==
  /\ pc = "converted"
  /\ Len(all_questions) = 2
  /\ \E j \in 1..Len(questions) :
       /\ questions[j].id = "2024-Q2"
       /\ Len(questions[j].sub_questions) = 2
       /\ Len(questions[j].sub_questions[2].sub_questions) = 2
       /\ questions[j].sub_questions[2].sub_questions[2].id = "2024-Q2-2-2"

RECURSIVE Whole(_, _, _)
\* question q has a sub-question for every sub-question record of its
\* record src, down to the depth cap
Whole(q, src, depth) ==
  depth < 3
  => /\ Len(q.sub_questions) = Len(SubRecords(src))
     /\ \A i \in 1..Len(q.sub_questions) :
          Whole(q.sub_questions[i], SubRecords(src)[i], depth + 1)

\* C15: conversion is atomic per record: a question that is emitted has a
\* sub-question for every sub-question record of its source record, down to
\* the depth cap; a record one of whose sub-questions cannot be converted is
\* skipped whole.
C15_ConversionAtomic ==
  pc = "converted"
  => \A j \in 1..Len(questions) :
       Whole(questions[j], all_questions[questions[j].index], 1)

\* C14: in the fallback path, when the Workers of two overlapping windows
\* both return question 7 with the same content, the final list holds exactly
\* one Question with index 7.
C14_FallbackDedupKeepsSeven ==
  (pc = "parsed" /\ "Fallback" \in Range(route) /\ Len(outcomes) = 2
     /\ \A w \in 1..2 : outcomes[w].recs = <<Good(7, <<"a">>)>>)
  => Cardinality({j \in 1..Len(questions) : questions[j].index = 7}) = 1

\* parse has been called with the text (OCR and cleaning did not raise)
ParseCalled == pc \notin {"created", "ocr"} /\ err # "OcrError"

\* the run is over, or parse has returned
ParseOver == pc \in {"parsed", "raised", "done"}

\* C20: a text of at most 15,000 characters gets exactly one Worker call, on
\* the whole text, and no Supervisor call; a longer text gets exactly one
\* Supervisor call, and no Worker call is started before that call has
\* returned or failed.
C20_ThresholdRouting ==
  /\ [](ParseCalled =>
          IF text_len <= 15000
          THEN /\ sup_outcome = ""
               /\ pc # "supervisor"
               /\ Len(outcomes) <= 1
               /\ ParseOver
                    => /\ Len(outcomes) = 1
                       /\ text_chunks = <<[lo |-> 0, hi |-> text_len]>>
          ELSE /\ Len(outcomes) > 0 => sup_outcome # ""
               /\ ParseOver => sup_outcome # "")
  /\ [][(sup_outcome' # sup_outcome
           => (pc = "supervisor" /\ sup_outcome = "" /\ Len(outcomes) = 0))
         /\ (pc' = "supervisor" => pc = "parse")]_vars

\* C20 witness: a text of exactly 15,000 characters was parsed by one Worker
\* call and the run completed without a Supervisor call.
C20_Witness ==
  /\ pc = "done"
  /\ status = "completed"
  /\ text_len = 15000
  /\ Len(outcomes) = 1
  /\ sup_outcome = ""
  /\ route = <<"Idle", "SinglePass", "Assembling", "Done">>

C16_RecoverNeverRaises ==
  pc = "recovered" => recovered.ok

\* C17: a text that is a JSON object and not an array is recovered as the
\* one-element list holding that object; stated for a lone record (an object
\* with a content key): the result is [record], not one of the record's
\* list-valued fields and not the empty list.
C17_LoneObjectWrapped ==
  pc = "recovered"
  => LET data == Loads(CleanFence(content))
     IN (data.ok /\ data.val.k = "dict"
           /\ DictGet(data.val, <<"c", "o", "n", "t", "e", "n", "t">>).k # "absent")
        => recovered = Return(<<data.val>>)

LatexSpecials == {"{", "}", "(", ")", "[", "]", "_", "^", "&", "%", "$", "#"}

RECURSIVE EscapeRepair(_)
\* the repair the claim names: a single backslash before one of {}()[]_^&%$#
\* is doubled
EscapeRepair(s) ==
  IF s = <<>> THEN <<>>
  ELSE IF Head(s) # "\\" \/ Len(s) = 1 THEN <<Head(s)>> \o EscapeRepair(Tail(s))
  ELSE IF s[2] \in LatexSpecials THEN <<"\\", "\\">> \o EscapeRepair(Tail(s))
  ELSE <<s[1], s[2]>> \o EscapeRepair(Tail(Tail(s)))

\* C18: a text that is not valid JSON only because of single backslashes
\* before one of {}()[]_^&%$# inside its strings, and that is a JSON array
\* once those are doubled, is recovered to the records of that array, each
\* string with its backslashes kept, not to an empty list.
C18_LatexEscapesRepaired ==
  pc = "recovered"
  => LET cleaned == CleanFence(content)
         repaired == Loads(EscapeRepair(cleaned))
     IN (~Loads(cleaned).ok /\ cleaned # EscapeRepair(cleaned)
           /\ repaired.ok /\ repaired.val.k = "list")
        => recovered = Return(repaired.val.v)


RECURSIVE AscendingSeq(_)
\* the members of a set of numbers, smallest first
AscendingSeq(S) ==
  IF S = {} THEN <<>>
  ELSE LET m == CHOOSE x \in S : \A y \in S : x <= y
       IN <<m>> \o AscendingSeq(S \ {m})

\* the plan entries have been located and the text has been cut
ChunksCut == pc \in {"dispatch", "fallback"} /\ route = <<"Idle", "SupervisedSplit">>

\* C23: given the offsets the locator returned for the plan entries, the
\* chunks come in strictly ascending offset order, there is exactly one per
\* distinct offset, each is non-empty and runs from its offset to the next
\* distinct offset, the last one to the end of the text; entries located at
\* the same offset give one chunk and no empty one.
C23_ChunksFollowOffsets ==
  ChunksCut =>
    LET offsets == AscendingSeq(Range(marker_at))
    IN /\ Len(text_chunks) = Len(offsets)
       /\ \A i \in 1..Len(text_chunks) :
            /\ text_chunks[i].lo = offsets[i]
            /\ text_chunks[i].hi = IF i < Len(offsets) THEN offsets[i + 1] ELSE text_len
            /\ text_chunks[i].lo < text_chunks[i].hi
       /\ \A i \in 1..(Len(text_chunks) - 1) : text_chunks[i].lo < text_chunks[i + 1].lo

\* two plan entries located at the same offset, cut into one chunk
C23_Witness ==
  /\ ChunksCut
  /\ Len(marker_at) = 2
  /\ marker_at[1] = marker_at[2]
  /\ text_chunks = <<[lo |-> marker_at[1], hi |-> text_len]>>

\* ------------------------------------------------------------------------
\* Properties of the fallback path
\* ------------------------------------------------------------------------
\* the fallback windows have been cut
WindowsCut == pc = "fb_worker" /\ route = <<"Fallback">>

\* C24: the fallback windows have at most 10,000 characters each, start at
\* 0, 8500, 17000, ... (every such offset below the text length and no
\* other), together contain every character of the text (the first starts at
\* 0, none starts after its predecessor's end, the last ends at the end of
\* the text), and two consecutive windows share exactly min(1,500, length of
\* the later window) characters.
C24_FallbackWindows ==
  WindowsCut =>
    LET n == Len(text_chunks)
        Length(w) == text_chunks[w].hi - text_chunks[w].lo
    IN /\ n = (text_len + 8499) \div 8500
       /\ \A w \in 1..n :
            /\ text_chunks[w].lo = (w - 1) * 8500
            /\ text_chunks[w].lo < text_len
            /\ Length(w) >= 1
            /\ Length(w) <= 10000
       /\ n >= 1 /\ text_chunks[1].lo = 0 /\ text_chunks[n].hi = text_len
       /\ \A w \in 1..(n - 1) :
            /\ text_chunks[w + 1].lo <= text_chunks[w].hi
            /\ text_chunks[w].hi - text_chunks[w + 1].lo
                 = Min(1500, Length(w + 1))

\* a text whose last window is shorter than the overlap and so lies wholly
\* inside its predecessor
C24_Witness ==
  /\ WindowsCut
  /\ Len(text_chunks) >= 3
  /\ LET n == Len(text_chunks)
     IN /\ text_chunks[n].hi - text_chunks[n].lo < 1500
        /\ text_chunks[n - 1].hi = text_len

\* the dedup key as the specification words it: the index, and the content
\* with all whitespace removed and then cut to the fingerprint length
StrippedThenCut(q) ==
  LET stripped == RemoveWhitespace(Get(q, "content", JStr(<<>>)).v)
  IN <<Get(q, "index", Null),
       SubSeq(stripped, 1, Min(FINGERPRINT_LEN, Len(stripped)))>>

\* the key the loop computes
ComputedKey(q) == DedupKey(q).val

RECURSIVE FirstOfEachKey(_, _, _)
\* the objects among qs[1..i] that no earlier object shares its key with, in
\* document order
FirstOfEachKey(qs, Key(_), i) ==
  IF i = 0 THEN <<>>
  ELSE FirstOfEachKey(qs, Key, i - 1)
         \o (IF IsDict(qs[i])
                /\ \A j \in 1..(i - 1) : IsDict(qs[j]) => Key(qs[j]) # Key(qs[i])
             THEN <<qs[i]>> ELSE <<>>)

\* C25: the fallback dedup drops a record exactly when an earlier record has
\* the same index and the same normalized content prefix, the normalized
\* prefix being the content with all whitespace removed and then cut to 30
\* characters; so records with one index whose contents differ only in
\* whitespace come out as one.
C25_DedupKeyStripsThenCuts ==
  pc = "deduped"
  => questions = FirstOfEachKey(all_questions, StrippedThenCut, Len(all_questions))

\* C26: of every group of records with the same dedup key exactly the first
\* in document order survives the fallback dedup, and every record whose key
\* is unique is kept.
C26_FirstOfEachKeySurvives ==
  pc \in {"deduped", "raised"}
  => /\ pc = "deduped"
     /\ questions = FirstOfEachKey(all_questions, ComputedKey, Len(all_questions))

\* ------------------------------------------------------------------------
\* Properties of the runs of one exam
\* ------------------------------------------------------------------------
\* C21: at any time at most one extraction run (upload processing or
\* reparse) is in progress for the exam, so that its status and parsed result
\* are never written by two overlapping runs.
C21_OneRunAtATime == Cardinality(InFlightRuns) <= 1

\* the status changes a single run makes, a reparse starting from a finished
\* run's status
AllowedChanges ==
  { <<"pending", "processing">>, <<"processing", "completed">>,
    <<"processing", "failed">>, <<"completed", "processing">>,
    <<"failed", "processing">> }

\* C22: under any sequence of upload, reparse and run steps, every change of
\* the exam's stored status is pending->processing, processing->completed,
\* processing->failed or, when a reparse starts, completed->processing or
\* failed->processing; status never goes from completed to failed or from
\* failed to completed directly.
C22_StatusTransitions ==
  [][(status' # status /\ status' # NoEntry)
       => /\ <<status, status'>> \in AllowedChanges
          /\ status \in {"completed", "failed"}
               => \E t \in 1..Len(tasks) :
                    tasks[t].kind = "reparse" /\ RunStart(t)]_vars

\* C28: once delete_exam has returned True for the exam, the index has no
\* entry for it and get_exam returns None for it, also when a run that was in
\* flight at the deletion finishes afterwards.
C28_DeletedStaysGone ==
  status = NoEntry => GetExam = Null

\* C29: every started run eventually leaves status processing: when every
\* external call returns or raises and the exam is not deleted, a status of
\* processing is followed by completed or failed.
C29_RunsLeaveProcessing ==
  (status = "processing") ~> (status \in {"completed", "failed", NoEntry})

\* the upload's run and a reparse have both finished, the reparse having
\* written the parsed result
C29_Witness ==
  /\ Len(tasks) >= 2
  /\ InFlightRuns = {}
  /\ status \in {"completed", "failed"}
  /\ parsed # <<>> /\ parsed[1].written_by = 2

\* ------------------------------------------------------------------------
\* Properties of the debug artifacts
\* ------------------------------------------------------------------------
\* C27: every debug artifact of a run is written into the debug directory of
\* that run's own exam, also when runs of different exams are in progress at
\* the same time on the shared parser.
C27_DebugFilesInOwnDir ==
  \A f \in debug_files : f.dir = DebugDirOf(f.exam)

\* ------------------------------------------------------------------------
\* Properties of the OCR client
\* ------------------------------------------------------------------------
\* C30: _rotate_token returns False, and _submit_task gives up with the
\* "all tokens unavailable" error, only after a submission was attempted in
\* that call with every configured token, whatever index earlier calls have
\* left behind; the index always stays within the token list.
C30_GivesUpAfterAllTokens ==
  /\ current_token_idx \in 0..(Len(tokens) - 1)
  /\ pc = "gave_up" => tried = 0..(Len(tokens) - 1)
====
